---- MODULE Spec2Model ----
(***************************************************************************)
(* Patch synthesis and validation core of AutoSummarizationWithSuiteCRM.   *)
(*                                                                         *)
(*   SpecSpan   : refactor_to_patch._replace_php_function, with the loop   *)
(*                of _find_php_function_span taken one iteration at a time *)
(*   SpecDiff   : generate_from_codebase.normalize_unified_diff_hunk_counts*)
(*   SpecBundle : generate_from_codebase.parse_file_bundle followed by     *)
(*                write_module_files, one bundle entry at a time           *)
(*                                                                         *)
(* Texts are sequences of one-character strings.  Offsets into a text are  *)
(* Python's 0-based offsets, so text[i] of the source is t[i + 1] here.    *)
(***************************************************************************)
EXTENDS Integers, Sequences, FiniteSets, TLC

VARIABLES
    \* ---- _replace_php_function / _find_php_function_span
    text,               \* original_text
    m,                  \* the re.search match, [s, e], or NoMatch
    pc,                 \* position in _replace_php_function
    start,              \* offset of the 'function' keyword
    brace_open,         \* offset found by text.find("{", m.end(0))
    i, depth, in_sq, in_dq, in_line_comment, in_block_comment, escape,
    iterations,         \* history: iterations of the while loop run so far
    span_end,           \* the second component of the returned tuple
    outcome,            \* how the call ended
    new_function_text,  \* the replacement handed to _replace_php_function
    new_text,           \* the document _replace_php_function returns
    \* ---- normalize_unified_diff_hunk_counts
    diff_text,          \* the text handed to the repair pass
    diff_pc,            \* how many times the repair pass has been applied
    repaired,           \* normalize_unified_diff_hunk_counts(diff_text)
    repaired_twice,     \* the repair pass applied to its own output
    \* ---- parse_file_bundle / write_module_files
    payload,            \* what json.loads made of output_text
    bundle_pc,          \* position in the two calls
    files,              \* the list parse_file_bundle returned
    bundle_error,       \* the exception that ended the calls, or None
    fs,                 \* the file system
    written,            \* the list write_module_files builds
    \* ---- snippet_replace_to_patch.main, from line 60 on
    php_text,           \* the target file's text, newlines normalised
    original_snippet,   \* the snippet to look for, newlines normalised
    generated_snippet,  \* the new snippet, after the checks of lines 47-58
    snippet_pc,         \* position in main
    snippet_error,      \* the exception that ended main, or None
    new_php_text,       \* php_text.replace(original_snippet, generated_snippet, 1)
    \* ---- validate_generated_output.main
    artifact,           \* read_text(input_path), or NoText when it is no file
    input_suffix,       \* input_path.suffix.lower()
    no_php_lint,        \* args.no_php_lint
    run_log,            \* whether args.run_log names a file
    existing_paths,     \* the raw paths that exist under suitecrm_root
    findings,           \* the findings list of validate_file
    validate_pc,        \* position in main
    tmp_path,           \* tmp_path of run_php_lint_if_applicable
    scratch_files,      \* the scratch files on disk
    proc,               \* how subprocess.run ended, or the exception under way
    counts,             \* report["counts"]
    run_record,         \* the records appended to the run log
    exit_code,          \* what main returned, 1 for an uncaught exception
    \* ---- suitecrm_agent.utils.chunk_text and the list() around it
    chunk_input,        \* text
    chunk_size,         \* chunk_size
    overlap,            \* overlap
    chunk_start,        \* start
    chunk_end,          \* end
    first_chunk,        \* chunks[0] of the caller's list, NoText while empty
    chunk_pc,           \* position in the generator
    \* ---- refactor_to_patch.main, from line 297 on, and __main__
    mode,               \* args.mode
    arg_function_name,  \* function_name = (args.function_name or "").strip()
    original,           \* what main tests of original_text
    patch_before,       \* the output file before the run, None when absent
    patch_file,         \* the output file
    mode_used,          \* mode_used
    full_response,      \* what full_file_request returned, or None
    function_response,  \* what function_only_request returned, or None
    full_requests,      \* calls of full_file_request
    function_requests,  \* calls of function_only_request
    main_new_text,      \* where main's new_text comes from
    run_error,          \* the exception that left main, or None
    run_pc,             \* position in main
    run_exit,           \* the process's exit status, -1 while running
    \* ---- generate_from_codebase.run_one, lines 751-764 (module output mode)
    output_text,        \* what json.loads makes of output_text
    repaired_output,    \* what json.loads makes of repaired
    repair_requests,    \* calls of repair_file_bundle_json
    fs_before,          \* the file system when run_one was entered
    retry_error,        \* the exception that left run_one, or None
    retry_pc,           \* position in run_one
    \* ---- suitecrm_agent: SuiteCRMAgent._ensure_summary and its SummaryStore
    store,              \* the .json files of the store directory, by file stem
    source_version,     \* per module, the state of its source files
    last_ensured,       \* per module, source_version at its last _ensure_summary, or -1
    summarizer_calls,   \* calls of summarize_module
    ensure_runs,        \* calls of _ensure_summary
    cached,             \* what the last _ensure_summary returned, or NoSummary
    \* ---- refactor_to_patch.main lines 357-383, then validate_unified_diff
    original_text,      \* original_text
    updated_text,       \* main's new_text
    patch_text,         \* the text written to the output file, NoText before
    patch_findings,     \* validate_unified_diff(patch_text)
    patch_pc            \* position in the pipeline

spanVars == << text, m, pc, start, brace_open, i, depth, in_sq, in_dq,
               in_line_comment, in_block_comment, escape, iterations,
               span_end, outcome, new_function_text, new_text >>

diffVars == << diff_text, diff_pc, repaired, repaired_twice >>

bundleVars == << payload, bundle_pc, files, bundle_error, fs, written >>

snippetVars == << php_text, original_snippet, generated_snippet, snippet_pc,
                  snippet_error, new_php_text >>

validateVars == << artifact, input_suffix, no_php_lint, run_log, existing_paths,
                   findings, validate_pc, tmp_path, scratch_files, proc,
                   counts, run_record, exit_code >>

chunkVars == << chunk_input, chunk_size, overlap, chunk_start, chunk_end,
                first_chunk, chunk_pc >>

runVars == << mode, arg_function_name, original, patch_before, patch_file,
              mode_used, full_response, function_response, full_requests,
              function_requests, main_new_text, run_error, run_pc, run_exit >>

retryVars == << output_text, repaired_output, repair_requests, fs_before,
                retry_error, retry_pc >>

cacheVars == << store, source_version, last_ensured, summarizer_calls,
                ensure_runs, cached >>

patchVars == << original_text, updated_text, patch_text, patch_findings, patch_pc >>

agentVars == << chunkVars, runVars, retryVars, cacheVars, patchVars >>

toolVars == << snippetVars, validateVars, agentVars >>

vars == << spanVars, diffVars, bundleVars, toolVars >>

----------------------------------------------------------------------------
(* Characters and Python string helpers *)

None == "None"

\* The absent text (no one-character string equals None)
NoText == << None >>

\* re.search found nothing
NoMatch == [s |-> -1, e |-> -1]

UpperCase == << "A","B","C","D","E","F","G","H","I","J","K","L","M",
                "N","O","P","Q","R","S","T","U","V","W","X","Y","Z" >>
LowerCase == << "a","b","c","d","e","f","g","h","i","j","k","l","m",
                "n","o","p","q","r","s","t","u","v","w","x","y","z" >>
Digits    == << "0","1","2","3","4","5","6","7","8","9" >>

Range(s) == { s[k] : k \in DOMAIN s }

Least(S) == CHOOSE k \in S : \A h \in S : k <= h

\* The least element of a set of offsets, -1 for the empty set
LeastOr(S) == IF S = {} THEN -1 ELSE Least(S)

\* str.lower() on one character
Lower(c) ==
    IF c \in Range(UpperCase)
    THEN LowerCase[CHOOSE k \in DOMAIN UpperCase : UpperCase[k] = c]
    ELSE c

\* \w of the re module
IsWord(c) == c \in Range(UpperCase) \cup Range(LowerCase) \cup Range(Digits) \cup {"_"}

\* \s of the re module, and the characters str.strip() removes
IsSpace(c) == c \in {" ", "\t", "\n", "\r"}

\* t[a:b] for 0 <= a, b (Python slice, clipped)
Slice(t, a, b) ==
    LET hi == IF b > Len(t) THEN Len(t) ELSE b
    IN  IF a >= hi THEN << >> ELSE [k \in 1..(hi - a) |-> t[a + k]]

\* t.find(ch, from): offset of the first ch at or after from, -1 if none
FindChar(t, ch, from) == LeastOr({ k \in from..(Len(t) - 1) : t[k + 1] = ch })

\* str.strip()
Strip(t) ==
    LET keep == { k \in 1..Len(t) : ~IsSpace(t[k]) }
    IN  IF keep = {} THEN << >>
        ELSE LET lo == CHOOSE k \in keep : \A h \in keep : k <= h
                 hi == CHOOSE k \in keep : \A h \in keep : k >= h
             IN  [k \in 1..(hi - lo + 1) |-> t[lo + k - 1]]

----------------------------------------------------------------------------
(* The signature pattern of _find_php_function_span *)

function_name == << "f" >>

KwFunction  == << "f","u","n","c","t","i","o","n" >>

\* Offset after w matched case-insensitively at offset p, -1 if it is not there
MatchWord(t, p, w) ==
    IF p + Len(w) <= Len(t) /\ \A k \in 1..Len(w) : Lower(t[p + k]) = Lower(w[k])
    THEN p + Len(w) ELSE -1

\* \s* from offset p (greedy)
RECURSIVE SkipSpaces(_, _)
SkipSpaces(t, p) ==
    IF p < Len(t) /\ IsSpace(t[p + 1]) THEN SkipSpaces(t, p + 1) ELSE p

\* The offsets in qs that are matches (MatchWord gives -1 for a failure)
Matched(qs) == { q \in qs : q # -1 }

\* \s+ from offset q (greedy): the offset after it, -1 if there is no space
SpacesFrom(t, q) ==
    IF q # -1 /\ q < Len(t) /\ IsSpace(t[q + 1]) THEN SkipSpaces(t, q) ELSE -1

\* w\s+ at offset p
MatchWordSp(t, p, w) == SpacesFrom(t, MatchWord(t, p, w))

\* \s*\( from offset r
ParenFrom(t, r) == IF r < Len(t) /\ t[r + 1] = "(" THEN r + 1 ELSE -1

\* function\s+NAME\s*\( at offset p
MatchFunctionName(t, p) ==
    { ParenFrom(t, SkipSpaces(t, r)) :
        r \in Matched({ MatchWord(t, q, function_name) :
                          q \in Matched({ MatchWordSp(t, p, KwFunction) }) }) }

\* The offsets at which the pattern can go on after the two optional groups
\* (?:public\s+|protected\s+|private\s+)?(?:static\s+)? begun at offset p
AfterVisibility(t, p) ==
    {p} \cup Matched({ MatchWordSp(t, p, w) :
                        w \in { << "p","u","b","l","i","c" >>,
                                << "p","r","o","t","e","c","t","e","d" >>,
                                << "p","r","i","v","a","t","e" >> } })

AfterModifiers(t, p) ==
    UNION { {q} \cup Matched({ MatchWordSp(t, q, << "s","t","a","t","i","c" >>) }) :
              q \in AfterVisibility(t, p) }

\* The offsets at which a match of the pattern's tail begun at offset p ends.
\* No modifier keyword is a prefix of "function" or the other way round, so
\* at most one way through the optional groups succeeds and the set has at
\* most one element: the order in which re tries them cannot change m.end(0).
MatchEnds(t, p) ==
    Matched(UNION { MatchFunctionName(t, q) : q \in AfterModifiers(t, p) })

\* Where the pattern's tail may begin for a match that starts at offset s:
\* (^|[^\w]) is ^ (offset 0 only, without re.MULTILINE) or one non-word
\* character
TailStarts(t, s) ==
    (IF s = 0 THEN {0} ELSE {})
        \cup (IF s < Len(t) /\ ~IsWord(t[s + 1]) THEN {s + 1} ELSE {})

\* Every way the pattern matches: s = m.start(0), p = where its tail begins,
\* e = m.end(0)
Matches(t) ==
    UNION { UNION { { [s |-> s, p |-> p, e |-> e] : e \in MatchEnds(t, p) } :
                      p \in TailStarts(t, s) } :
              s \in 0..Len(t) }

\* re.search takes the leftmost start, and at one start tries ^ before [^\w]
Preferred(c, d) == c.s < d.s \/ (c.s = d.s /\ c.p <= d.p)

FirstOf(cs) ==
    IF cs = {} THEN NoMatch
    ELSE [s |-> (CHOOSE c \in cs : \A d \in cs : Preferred(c, d)).s,
          e |-> (CHOOSE c \in cs : \A d \in cs : Preferred(c, d)).e]

\* m = re.search(...), as [s |-> m.start(0), e |-> m.end(0)], or NoMatch
SearchSignature(t) == CHOOSE r \in { FirstOf(cs) : cs \in { Matches(t) } } : TRUE

\* text.lower().find("function", m.start(0), m.end(0))
FindFunctionKw(t, mm) ==
    LeastOr({ k \in mm.s..(mm.e - Len(KwFunction)) : MatchWord(t, k, KwFunction) # -1 })

\* start = function_kw if function_kw != -1 else m.start(0)
SpanStart(t, mm) ==
    IF FindFunctionKw(t, mm) # -1 THEN FindFunctionKw(t, mm) ELSE mm.s

\* brace_open = text.find("{", m.end(0))
FindBraceOpen(t, mm) == FindChar(t, "{", mm.e)

----------------------------------------------------------------------------
(* One iteration of the while loop of _find_php_function_span.             *)
(* s is the record of the loop's locals; ret is set when the iteration     *)
(* executes `return start, i + 1` (i is then the offset of the brace).     *)

ScanInit(at) ==
    [ i |-> at, depth |-> 0, in_sq |-> FALSE, in_dq |-> FALSE,
      in_line_comment |-> FALSE, in_block_comment |-> FALSE,
      escape |-> FALSE, ret |-> FALSE ]

\* The scanner is in none of its string or comment contexts
InNormal(s) == ~s.in_sq /\ ~s.in_dq /\ ~s.in_line_comment /\ ~s.in_block_comment

\* lines 173-177: inside a line comment
ScanLineComment(s, ch) ==
    [s EXCEPT !.in_line_comment = (ch # "\n"), !.i = s.i + 1]

\* lines 178-184: inside a block comment
ScanBlockComment(s, ch, nxt) ==
    IF ch = "*" /\ nxt = "/"
    THEN [s EXCEPT !.in_block_comment = FALSE, !.i = s.i + 2]
    ELSE [s EXCEPT !.i = s.i + 1]

\* ScanSingleQuoted leaving the string at any "'" whether escaped or not
ScanSingleQuotedAnyQuote(s, ch) ==
    IF ch = "'" THEN [s EXCEPT !.in_sq = FALSE, !.i = s.i + 1]
    ELSE IF s.escape THEN [s EXCEPT !.escape = FALSE, !.i = s.i + 1]
    ELSE IF ch = "\\" THEN [s EXCEPT !.escape = TRUE, !.i = s.i + 1]
    ELSE [s EXCEPT !.i = s.i + 1]

\* lines 186-194: inside a single-quoted string
ScanSingleQuoted(s, ch) ==
    IF s.escape THEN [s EXCEPT !.escape = FALSE, !.i = s.i + 1]
    ELSE IF ch = "\\" THEN [s EXCEPT !.escape = TRUE, !.i = s.i + 1]
    ELSE IF ch = "'" THEN [s EXCEPT !.in_sq = FALSE, !.i = s.i + 1]
    ELSE [s EXCEPT !.i = s.i + 1]

\* lines 195-203: inside a double-quoted string
ScanDoubleQuoted(s, ch) ==
    IF s.escape THEN [s EXCEPT !.escape = FALSE, !.i = s.i + 1]
    ELSE IF ch = "\\" THEN [s EXCEPT !.escape = TRUE, !.i = s.i + 1]
    ELSE IF ch = "\"" THEN [s EXCEPT !.in_dq = FALSE, !.i = s.i + 1]
    ELSE [s EXCEPT !.i = s.i + 1]

\* CloseBrace returning at any "}" whatever the depth
CloseBraceAnyDepth(s) == [s EXCEPT !.depth = s.depth - 1, !.ret = TRUE]

\* lines 231-234: depth -= 1, and return start, i + 1 when depth == 0
CloseBrace(s) ==
    IF s.depth - 1 = 0
    THEN [s EXCEPT !.depth = 0, !.ret = TRUE]
    ELSE [s EXCEPT !.depth = s.depth - 1, !.i = s.i + 1]

\* lines 205-236: in none of the string or comment contexts
ScanNormal(s, ch, nxt) ==
    IF ch = "/" /\ nxt = "/" THEN [s EXCEPT !.in_line_comment = TRUE, !.i = s.i + 2]
    ELSE IF ch = "#" THEN [s EXCEPT !.in_line_comment = TRUE, !.i = s.i + 1]
    ELSE IF ch = "/" /\ nxt = "*" THEN [s EXCEPT !.in_block_comment = TRUE, !.i = s.i + 2]
    ELSE IF ch = "'" THEN [s EXCEPT !.in_sq = TRUE, !.i = s.i + 1]
    ELSE IF ch = "\"" THEN [s EXCEPT !.in_dq = TRUE, !.i = s.i + 1]
    ELSE IF ch = "{" THEN [s EXCEPT !.depth = s.depth + 1, !.i = s.i + 1]
    ELSE IF ch = "}" THEN CloseBrace(s)
    ELSE [s EXCEPT !.i = s.i + 1]

\* nxt = text[i + 1] if i + 1 < len(text) else ""
NextChar(t, k) == IF k + 1 < Len(t) THEN t[k + 2] ELSE ""

\* lines 170-236: the loop body
ScanIter(t, s) ==
    IF s.in_line_comment THEN ScanLineComment(s, t[s.i + 1])
    ELSE IF s.in_block_comment THEN ScanBlockComment(s, t[s.i + 1], NextChar(t, s.i))
    ELSE IF s.in_sq THEN ScanSingleQuoted(s, t[s.i + 1])
    ELSE IF s.in_dq THEN ScanDoubleQuoted(s, t[s.i + 1])
    ELSE ScanNormal(s, t[s.i + 1], NextChar(t, s.i))

\* The loop's locals as one record
Locals ==
    [ i |-> i, depth |-> depth, in_sq |-> in_sq, in_dq |-> in_dq,
      in_line_comment |-> in_line_comment, in_block_comment |-> in_block_comment,
      escape |-> escape, ret |-> FALSE ]

SetLocals(s) ==
    /\ i' = s.i
    /\ depth' = s.depth
    /\ in_sq' = s.in_sq
    /\ in_dq' = s.in_dq
    /\ in_line_comment' = s.in_line_comment
    /\ in_block_comment' = s.in_block_comment
    /\ escape' = s.escape

----------------------------------------------------------------------------
(* Documents: a head that ends with a signature's "(" followed by up to    *)
(* MaxTail fragments.                                                      *)

MaxTail == 2

SigF == << "f","u","n","c","t","i","o","n"," ","f","(" >>

Heads ==
    { SigF,
      << "p","u","b","l","i","c"," ","s","t","a","t","i","c"," " >> \o SigF,
      << "/","*"," " >> \o SigF,
      << "x" >> \o SigF,
      << "\n","F","U","N","C","T","I","O","N"," ","F"," ","(" >> }

TailMenu ==
    { << ")","{" >>,
      << "}" >>,
      << "{" >>,
      << "'","{","'" >>,
      << "\"","}","\"" >>,
      << "/","*","{","*","/" >>,
      << "/","/","}","\n" >>,
      << "#","{","\n" >>,
      << "'","\\","'","}","'" >> }

RECURSIVE Tails(_)
Tails(n) ==
    IF n = 0 THEN { << >> }
    ELSE LET shorter == Tails(n - 1)
         IN  shorter \cup { a \o b : a \in shorter, b \in TailMenu }

\* function f('{'){} : a default value holding a brace, then the body;
\* public static function f(){{}}} : a method holding a block, then the end
\* of its class
ExampleDocuments ==
    { SigF \o << "'","{","'" >> \o << ")","{" >> \o << "}" >>,
      << "p","u","b","l","i","c"," ","s","t","a","t","i","c"," " >> \o SigF
          \o << ")","{" >> \o << "{" >> \o << "}" >> \o << "}" >> \o << "}" >> }

Documents ==
    { h \o tl : h \in Heads, tl \in Tails(MaxTail) } \cup ExampleDocuments

\* new_function_text values handed to _replace_php_function
NewFunctionTexts ==
    { << >>,
      << " ","\n" >>,
      << "\n","f","(",")","{","}"," " >>,
      << "g" >> }

----------------------------------------------------------------------------
(* _replace_php_function(original_text, function_name, new_function_text) *)

\* No repair pass is under way
DiffIdle ==
    /\ diff_text = NoText
    /\ diff_pc = "idle"
    /\ repaired = NoText
    /\ repaired_twice = NoText

\* Neither parse_file_bundle nor write_module_files is under way
BundleIdle ==
    /\ payload = [kind |-> "none"]
    /\ bundle_pc = "idle"
    /\ files = << >>
    /\ bundle_error = None
    /\ fs = << >>
    /\ written = << >>

\* snippet_replace_to_patch.main is not under way
SnippetIdle ==
    /\ php_text = << >>
    /\ original_snippet = << >>
    /\ generated_snippet = << >>
    /\ snippet_pc = "idle"
    /\ snippet_error = None
    /\ new_php_text = NoText

\* No subprocess has run and no exception is under way
NoProc == [kind |-> None, returncode |-> 0, output |-> << >>]

\* validate_file has not built its report
NoCounts == [error |-> -1, warn |-> -1, info |-> -1]

\* validate_generated_output.main is not under way
ValidateIdle ==
    /\ artifact = NoText
    /\ input_suffix = ""
    /\ no_php_lint = FALSE
    /\ run_log = FALSE
    /\ existing_paths = {}
    /\ findings = << >>
    /\ validate_pc = "idle"
    /\ tmp_path = None
    /\ scratch_files = {}
    /\ proc = NoProc
    /\ counts = NoCounts
    /\ run_record = << >>
    /\ exit_code = -1

\* chunk_text has not been called
ChunkIdle ==
    /\ chunk_input = << >>
    /\ chunk_size = 0
    /\ overlap = 0
    /\ chunk_start = 0
    /\ chunk_end = 0
    /\ first_chunk = NoText
    /\ chunk_pc = "idle"

\* No model response has been received
NoResponse == [kind |-> None]

\* refactor_to_patch.main is not under way
RunIdle ==
    /\ mode = ""
    /\ arg_function_name = ""
    /\ original = NoResponse
    /\ patch_before = None
    /\ patch_file = None
    /\ mode_used = ""
    /\ full_response = NoResponse
    /\ function_response = NoResponse
    /\ full_requests = 0
    /\ function_requests = 0
    /\ main_new_text = ""
    /\ run_error = None
    /\ run_pc = "idle"
    /\ run_exit = -1

\* run_one is not under way
RetryIdle ==
    /\ output_text = [kind |-> "none"]
    /\ repaired_output = [kind |-> "none"]
    /\ repair_requests = 0
    /\ fs_before = << >>
    /\ retry_error = None
    /\ retry_pc = "idle"

\* No summary
NoSummary == [name |-> << >>, source_hash |-> << >>]

\* No SuiteCRMAgent has been built
CacheIdle ==
    /\ store = << >>
    /\ source_version = << >>
    /\ last_ensured = << >>
    /\ summarizer_calls = 0
    /\ ensure_runs = 0
    /\ cached = NoSummary

\* No patch is being synthesized
PatchIdle ==
    /\ original_text = << >>
    /\ updated_text = << >>
    /\ patch_text = NoText
    /\ patch_findings = << >>
    /\ patch_pc = "idle"

AgentIdle == ChunkIdle /\ RunIdle /\ RetryIdle /\ CacheIdle /\ PatchIdle

ToolsIdle == SnippetIdle /\ ValidateIdle /\ AgentIdle

InitSpan ==
    /\ DiffIdle
    /\ BundleIdle
    /\ ToolsIdle
    /\ text \in Documents
    /\ m = NoMatch
    /\ pc = "search"
    /\ start = -1
    /\ brace_open = -1
    /\ i = 0
    /\ depth = 0
    /\ in_sq = FALSE
    /\ in_dq = FALSE
    /\ in_line_comment = FALSE
    /\ in_block_comment = FALSE
    /\ escape = FALSE
    /\ iterations = 0
    /\ span_end = -1
    /\ outcome = None
    /\ new_function_text = NoText
    /\ new_text = NoText

\* lines 144-148: m = re.search(...)
Search ==
    /\ pc = "search"
    /\ m' = SearchSignature(text)
    /\ pc' = "matched"
    /\ UNCHANGED << text, start, brace_open, i, depth, in_sq, in_dq,
                    in_line_comment, in_block_comment, escape, iterations,
                    span_end, outcome, new_function_text, new_text >>

\* lines 149-150: no match raises "Could not find function"
SearchFails ==
    /\ pc = "matched"
    /\ m = NoMatch
    /\ pc' = "done"
    /\ outcome' = "FunctionNotFound"
    /\ UNCHANGED << text, m, start, brace_open, i, depth, in_sq, in_dq,
                    in_line_comment, in_block_comment, escape, iterations,
                    span_end, new_function_text, new_text >>

\* lines 152-159: a match without any later "{" raises "Could not find opening"
OpenBraceMissing ==
    /\ pc = "matched"
    /\ m # NoMatch
    /\ FindBraceOpen(text, m) = -1
    /\ start' = SpanStart(text, m)
    /\ pc' = "done"
    /\ outcome' = "NoOpeningBrace"
    /\ UNCHANGED << text, m, brace_open, i, depth, in_sq, in_dq,
                    in_line_comment, in_block_comment, escape, iterations,
                    span_end, new_function_text, new_text >>

\* lines 152-167: start, brace_open and the loop's initial locals
SearchFinds ==
    /\ pc = "matched"
    /\ m # NoMatch
    /\ FindBraceOpen(text, m) # -1
    /\ start' = SpanStart(text, m)
    /\ brace_open' = FindBraceOpen(text, m)
    /\ SetLocals(ScanInit(FindBraceOpen(text, m)))
    /\ pc' = "scan"
    /\ UNCHANGED << text, m, iterations, span_end, outcome, new_function_text, new_text >>

\* lines 169-236: one iteration that does not return
ScanStep ==
    /\ pc = "scan"
    /\ i < Len(text)
    /\ LET s == ScanIter(text, Locals)
       IN  /\ ~s.ret
           /\ SetLocals(s)
    /\ iterations' = iterations + 1
    /\ UNCHANGED << text, m, pc, start, brace_open, span_end, outcome,
                    new_function_text, new_text >>

\* lines 231-234: the iteration that returns (start, i + 1)
ScanReturns ==
    /\ pc = "scan"
    /\ i < Len(text)
    /\ LET s == ScanIter(text, Locals)
       IN  /\ s.ret
           /\ SetLocals(s)
           /\ span_end' = s.i + 1
    /\ iterations' = iterations + 1
    /\ pc' = "replace"
    /\ outcome' = "Span"
    /\ UNCHANGED << text, m, start, brace_open, new_function_text, new_text >>

\* line 238: the loop ran off the end of the text
ScanExhausted ==
    /\ pc = "scan"
    /\ i >= Len(text)
    /\ pc' = "done"
    /\ outcome' = "BraceMismatch"
    /\ UNCHANGED << text, m, start, brace_open, i, depth, in_sq, in_dq,
                    in_line_comment, in_block_comment, escape, iterations,
                    span_end, new_function_text, new_text >>

\* lines 243-244
\* Replacement without the .strip() of the new function text
ReplacementUntrimmed(t, st, en, n) ==
    Slice(t, 0, st) \o n \o Slice(t, en, Len(t))

Replacement(t, st, en, n) ==
    Slice(t, 0, st) \o Strip(n) \o Slice(t, en, Len(t))

Replace ==
    /\ pc = "replace"
    /\ \E n \in NewFunctionTexts :
          /\ new_function_text' = n
          /\ new_text' = Replacement(text, start, span_end, n)
    /\ pc' = "done"
    /\ UNCHANGED << text, m, start, brace_open, i, depth, in_sq, in_dq,
                    in_line_comment, in_block_comment, escape, iterations,
                    span_end, outcome >>

NextSpan ==
    \/ Search /\ UNCHANGED << diffVars, bundleVars, toolVars >>
    \/ SearchFails /\ UNCHANGED << diffVars, bundleVars, toolVars >>
    \/ OpenBraceMissing /\ UNCHANGED << diffVars, bundleVars, toolVars >>
    \/ SearchFinds /\ UNCHANGED << diffVars, bundleVars, toolVars >>
    \/ ScanStep /\ UNCHANGED << diffVars, bundleVars, toolVars >>
    \/ ScanReturns /\ UNCHANGED << diffVars, bundleVars, toolVars >>
    \/ ScanExhausted /\ UNCHANGED << diffVars, bundleVars, toolVars >>
    \/ Replace /\ UNCHANGED << diffVars, bundleVars, toolVars >>

SpecSpan == InitSpan /\ [][NextSpan]_vars

----------------------------------------------------------------------------
(* normalize_unified_diff_hunk_counts(text)                                *)

\* Offset k holds the last character of a line terminator of
\* str.splitlines(): "\n", "\r" or "\r\n" (the texts hold no other line break)
EndsTerminator(t, k) ==
    /\ t[k + 1] \in {"\n", "\r"}
    /\ ~(t[k + 1] = "\r" /\ k + 1 < Len(t) /\ t[k + 2] = "\n")

TerminatorEnds(t) == { k \in 0..(Len(t) - 1) : EndsTerminator(t, k) }

\* Offset of the first character of the terminator that ends at offset k
TerminatorStart(t, k) ==
    IF t[k + 1] = "\n" /\ k > 0 /\ t[k] = "\r" THEN k - 1 ELSE k

\* Offset at which line n (from 1) starts
LineStart(t, n) ==
    IF n = 1 THEN 0
    ELSE 1 + CHOOSE k \in TerminatorEnds(t) :
                 Cardinality({ h \in TerminatorEnds(t) : h < k }) = n - 2

\* Offset just past the last character of the line that starts at offset a
LineStop(t, a) ==
    IF \E k \in TerminatorEnds(t) : k >= a
    THEN TerminatorStart(t, Least({ k \in TerminatorEnds(t) : k >= a }))
    ELSE Len(t)

\* Number of lines str.splitlines() gives: text after the last terminator is
\* a line, an empty rest is not
LineCount(t) ==
    Cardinality(TerminatorEnds(t))
        + (IF \A k \in TerminatorEnds(t) : k + 1 < Len(t) THEN 1 ELSE 0)
        - (IF Len(t) = 0 THEN 1 ELSE 0)

\* text.splitlines()
SplitLines(t) ==
    [n \in 1..LineCount(t) |-> Slice(t, LineStart(t, n), LineStop(t, LineStart(t, n)))]

\* "\n".join(out)
RECURSIVE JoinFrom(_, _)
JoinFrom(out, n) ==
    IF n > Len(out) THEN << >>
    ELSE IF n = Len(out) THEN out[n]
    ELSE out[n] \o << "\n" >> \o JoinFrom(out, n + 1)

JoinLines(out) == JoinFrom(out, 1)

\* line.startswith(prefix)
StartsWith(line, prefix) ==
    /\ Len(prefix) <= Len(line)
    /\ \A k \in 1..Len(prefix) : line[k] = prefix[k]

\* needle in t, for a needle of two characters
Contains2(t, c1, c2) == \E k \in 1..(Len(t) - 1) : t[k] = c1 /\ t[k + 1] = c2

IsDigit(c) == c \in Range(Digits)

\* \d+ from offset p (greedy): the offset after it, -1 if no digit is there
RECURSIVE DigitsEndFrom(_, _)
DigitsEndFrom(line, p) ==
    IF p < Len(line) /\ IsDigit(line[p + 1]) THEN DigitsEndFrom(line, p + 1) ELSE p

DigitsEnd(line, p) ==
    IF p # -1 /\ p < Len(line) /\ IsDigit(line[p + 1]) THEN DigitsEndFrom(line, p) ELSE -1

\* (?:,(\d+))? from offset p: the offset after the group if it matches there,
\* else p (the group is optional)
OptionalCount(line, p) ==
    IF p # -1 /\ p < Len(line) /\ line[p + 1] = "," /\ DigitsEnd(line, p + 1) # -1
    THEN DigitsEnd(line, p + 1) ELSE p

\* A literal from offset p: the offset after it, -1 if it is not there
Literal(line, p, lit) ==
    IF p # -1 /\ p + Len(lit) <= Len(line) /\ \A k \in 1..Len(lit) : line[p + k] = lit[k]
    THEN p + Len(lit) ELSE -1

\* Offsets of the pieces of _HUNK_HEADER_RE matched at the start of a line:
\* "@@ -" a1..a2 [","..a3] " +" b1..b2 [","..b3] " @@"; each is -1 from the
\* first piece that does not match
HdrA1(line) == Literal(line, 0, << "@","@"," ","-" >>)
HdrA2(line) == DigitsEnd(line, HdrA1(line))
HdrA3(line) == OptionalCount(line, HdrA2(line))
HdrB1(line) == Literal(line, HdrA3(line), << " ","+" >>)
HdrB2(line) == DigitsEnd(line, HdrB1(line))
HdrB3(line) == OptionalCount(line, HdrB2(line))
HdrEnd(line) == Literal(line, HdrB3(line), << " ","@","@" >>)

\* m = _HUNK_HEADER_RE.match(line)
IsHunkHeader(line) == HdrEnd(line) # -1

\* m.group(1) and m.group(3)
OldStart(line) == Slice(line, HdrA1(line), HdrA2(line))
NewStart(line) == Slice(line, HdrB1(line), HdrB2(line))

\* str(n) for n >= 0
RECURSIVE IntToStr(_)
IntToStr(n) ==
    IF n < 10 THEN << Digits[n + 1] >>
    ELSE IntToStr(n \div 10) \o << Digits[(n % 10) + 1] >>

\* line 222: the body of a hunk ends before the next header or file boundary
IsBoundary(body) ==
    \/ StartsWith(body, << "@","@" >>)
    \/ StartsWith(body, << "d","i","f","f"," ","-","-","g","i","t"," " >>)
    \/ StartsWith(body, << "-","-","-"," " >>)
    \/ StartsWith(body, << "+","+","+"," " >>)

\* CountsOld with the no-newline marker counted as a context line
CountsOldWithMarker(body) ==
    StartsWith(body, << " " >>) \/ StartsWith(body, << "-" >>) \/ StartsWith(body, << "\\" >>)

\* lines 227-231: the body lines that add to old_count
CountsOld(body) == StartsWith(body, << " " >>) \/ StartsWith(body, << "-" >>)

\* lines 227-233: the body lines that add to new_count
CountsNew(body) == StartsWith(body, << " " >>) \/ StartsWith(body, << "+" >>)

\* lines 224-237: the body lines the counting loop steps over
IsHunkLine(body) ==
    StartsWith(body, << "\\" >>) \/ CountsOld(body) \/ CountsNew(body)

\* A counting loop that passes over a malformed line and stops at the next
\* header or file boundary only
RECURSIVE BodyStopAtBoundary(_, _)
BodyStopAtBoundary(lines, j) ==
    IF j < Len(lines) /\ ~IsBoundary(lines[j + 1])
    THEN BodyStopAtBoundary(lines, j + 1)
    ELSE j

\* lines 219-237: the index j at which the counting loop stops, for a loop
\* begun at index j (indices from 0, as in the source)
RECURSIVE BodyStop(_, _)
BodyStop(lines, j) ==
    IF j < Len(lines) /\ ~IsBoundary(lines[j + 1]) /\ IsHunkLine(lines[j + 1])
    THEN BodyStop(lines, j + 1)
    ELSE j

\* old_count and new_count of the loop that ran over lines[from:to]
OldCount(lines, from, to) ==
    Cardinality({ k \in from..(to - 1) : CountsOld(lines[k + 1]) })
NewCount(lines, from, to) ==
    Cardinality({ k \in from..(to - 1) : CountsNew(lines[k + 1]) })

\* RewrittenHeader with each start and its count in the other's place
RewrittenHeaderSwapped(old_start, old_count, new_start, new_count) ==
    << "@","@"," ","-" >> \o IntToStr(old_count) \o << "," >> \o old_start
        \o << " ","+" >> \o IntToStr(new_count) \o << "," >> \o new_start
        \o << " ","@","@" >>

\* line 239: the rewritten header
RewrittenHeader(old_start, old_count, new_start, new_count) ==
    << "@","@"," ","-" >> \o old_start \o << "," >> \o IntToStr(old_count)
        \o << " ","+" >> \o new_start \o << "," >> \o IntToStr(new_count)
        \o << " ","@","@" >>

\* A recounted header that also renumbers the hunk from line 1
RepairedHeaderFromOne(lines, h, j) ==
    RewrittenHeader(<< "1" >>, OldCount(lines, h + 1, j),
                    << "1" >>, NewCount(lines, h + 1, j))

\* The header of the hunk at index h, recounted over the body that stops at j
RepairedHeader(lines, h, j) ==
    RewrittenHeader(OldStart(lines[h + 1]), OldCount(lines, h + 1, j),
                    NewStart(lines[h + 1]), NewCount(lines, h + 1, j))

\* lines 205-243: out, for the outer loop begun at index k
RECURSIVE RepairFrom(_, _)
RepairFrom(lines, k) ==
    IF k >= Len(lines) THEN << >>
    ELSE IF ~IsHunkHeader(lines[k + 1]) THEN << lines[k + 1] >> \o RepairFrom(lines, k + 1)
    ELSE << RepairedHeader(lines, k, BodyStop(lines, k + 1)) >>
            \o SubSeq(lines, k + 2, BodyStop(lines, k + 1))
            \o RepairFrom(lines, BodyStop(lines, k + 1))

\* lines 199-245
normalize_unified_diff_hunk_counts(t) ==
    IF Len(t) = 0 \/ ~Contains2(t, "@", "@") THEN t
    ELSE JoinLines(RepairFrom(SplitLines(t), 0))

(* Texts handed to the repair pass: up to MaxLines lines of the menu joined *)
(* with "\n"; an empty last line makes the text end with a newline.        *)

MaxLines == 3

LineMenu ==
    { << "@","@"," ","-","1",",","9"," ","+","2",",","9"," ","@","@" >>,
      << "@","@"," ","-","3"," ","+","4"," ","@","@"," ","f" >>,
      << " ","a" >>,
      << "-","b" >>,
      << "+","c" >>,
      << "\\"," ","N" >>,
      << "x" >>,
      << >>,
      << "-","-","-"," ","a" >> }

RECURSIVE LineLists(_)
LineLists(n) ==
    IF n = 0 THEN { << >> }
    ELSE LineLists(n - 1) \cup { Append(ls, l) : ls \in LineLists(n - 1), l \in LineMenu }

\* The hunk of the specification's example: body " a", "-b", "+c", "+d"
ExampleHunk ==
    << << "@","@"," ","-","1",",","9"," ","+","2",",","9"," ","@","@" >>,
       << " ","a" >>, << "-","b" >>, << "+","c" >>, << "+","d" >> >>

DiffTexts == { JoinLines(ls) : ls \in LineLists(MaxLines) \cup { ExampleHunk } }

\* Nothing of the span replacer is under way
SpanIdle ==
    /\ text = << >>
    /\ m = NoMatch
    /\ pc = "idle"
    /\ start = -1
    /\ brace_open = -1
    /\ i = 0
    /\ depth = 0
    /\ in_sq = FALSE
    /\ in_dq = FALSE
    /\ in_line_comment = FALSE
    /\ in_block_comment = FALSE
    /\ escape = FALSE
    /\ iterations = 0
    /\ span_end = -1
    /\ outcome = None
    /\ new_function_text = NoText
    /\ new_text = NoText

InitDiff ==
    /\ SpanIdle
    /\ BundleIdle
    /\ ToolsIdle
    /\ diff_text \in DiffTexts
    /\ diff_pc = "start"
    /\ repaired = NoText
    /\ repaired_twice = NoText

\* The repair pass applied to the text
Repair ==
    /\ diff_pc = "start"
    /\ repaired' = normalize_unified_diff_hunk_counts(diff_text)
    /\ diff_pc' = "once"
    /\ UNCHANGED << diff_text, repaired_twice >>

\* The repair pass applied to its own output
RepairAgain ==
    /\ diff_pc = "once"
    /\ repaired_twice' = normalize_unified_diff_hunk_counts(repaired)
    /\ diff_pc' = "twice"
    /\ UNCHANGED << diff_text, repaired >>

NextDiff ==
    \/ Repair /\ UNCHANGED << spanVars, bundleVars, toolVars >>
    \/ RepairAgain /\ UNCHANGED << spanVars, bundleVars, toolVars >>

SpecDiff == InitDiff /\ [][NextDiff]_vars

----------------------------------------------------------------------------
(* parse_file_bundle.  Paths are texts; the three content fields and the   *)
(* decoded content are sequences of Unicode code points, so that base64    *)
(* and UTF-8 decoding are computed and not assumed.                        *)

\* The values json.loads hands over: a missing key or null, a string, a list
JAbsent  == [tag |-> "absent", s |-> << >>, l |-> << >>]
JStr(s)  == [tag |-> "str", s |-> s, l |-> << >>]
JList(l) == [tag |-> "list", s |-> << >>, l |-> l]

\* str(item.get(key) or "") for a string or missing value
StrOrEmpty(v) == IF v.tag = "str" THEN v.s ELSE << >>

\* line 426: rel_path.replace("\\", "/")
BackslashToSlash(p) == [n \in 1..Len(p) |-> IF p[n] = "\\" THEN "/" ELSE p[n]]

\* p.split("/")
SlashAt(p, n) ==
    IF n = 0 THEN 0
    ELSE IF n > Cardinality({ x \in 1..Len(p) : p[x] = "/" }) THEN Len(p) + 1
    ELSE CHOOSE x \in 1..Len(p) :
            p[x] = "/" /\ Cardinality({ y \in 1..x : p[y] = "/" }) = n

SplitSlash(p) ==
    [n \in 1..(Cardinality({ x \in 1..Len(p) : p[x] = "/" }) + 1) |->
        SubSeq(p, SlashAt(p, n - 1) + 1, SlashAt(p, n) - 1)]

\* _is_safe_relative_path without the replacement of line 426
is_safe_relative_path_as_given(rel_path) ==
    /\ Strip(rel_path) # << >>
    /\ Strip(rel_path)[1] # "/"
    /\ ":" \notin Range(Strip(rel_path))
    /\ \A seg \in { g \in Range(SplitSlash(Strip(rel_path))) : g # << >> } :
          seg # << ".", "." >>

\* lines 425-434
is_safe_relative_path(rel_path) ==
    /\ Strip(BackslashToSlash(rel_path)) # << >>
    /\ Strip(BackslashToSlash(rel_path))[1] # "/"
    /\ ":" \notin Range(Strip(BackslashToSlash(rel_path)))
    /\ \A seg \in { g \in Range(SplitSlash(Strip(BackslashToSlash(rel_path)))) :
                      g # << >> } :
          seg # << ".", "." >>

\* str.isspace(), which str.strip() and \s of the re module go by
IsSpaceCP(c) ==
    c \in (9..13) \cup (28..32) \cup {133, 160, 5760} \cup (8192..8202)
            \cup {8232, 8233, 8239, 8287, 12288}

\* str.strip() on code points
StripCP(t) ==
    IF \A k \in 1..Len(t) : IsSpaceCP(t[k]) THEN << >>
    ELSE SubSeq(t, Least({ k \in 1..Len(t) : ~IsSpaceCP(t[k]) }),
                   CHOOSE k \in 1..Len(t) :
                       /\ ~IsSpaceCP(t[k])
                       /\ \A h \in (k + 1)..Len(t) : IsSpaceCP(t[h]))

\* line 471: re.sub(r"\s+", "", content_b64.strip())
RemoveSpaces(t) == SelectSeq(t, LAMBDA c : ~IsSpaceCP(c))

\* The value of a character in the standard base64 alphabet, -1 outside it
B64Value(c) ==
    IF c \in 65..90 THEN c - 65
    ELSE IF c \in 97..122 THEN c - 71
    ELSE IF c \in 48..57 THEN c + 4
    ELSE IF c = 43 THEN 62
    ELSE IF c = 47 THEN 63
    ELSE -1

\* line 472: re.fullmatch(r"[A-Za-z0-9+/=_-]+", raw_b64)
InB64Alphabets(raw) ==
    /\ raw # << >>
    /\ \A k \in 1..Len(raw) : B64Value(raw[k]) # -1 \/ raw[k] \in {61, 95, 45}

\* line 479: raw_b64 + "=" * ((4 - len(raw_b64) % 4) % 4)
Padded(raw) == raw \o [n \in 1..((4 - (Len(raw) % 4)) % 4) |-> 61]

\* One data character of binascii.a2b_base64
B64Step(st, v) ==
    CASE st.quad_pos = 0 ->
            [st EXCEPT !.pads = 0, !.quad_pos = 1, !.leftchar = v]
      [] st.quad_pos = 1 ->
            [st EXCEPT !.pads = 0, !.quad_pos = 2, !.leftchar = v % 16,
                       !.out = Append(@, st.leftchar * 4 + (v \div 16))]
      [] st.quad_pos = 2 ->
            [st EXCEPT !.pads = 0, !.quad_pos = 3, !.leftchar = v % 4,
                       !.out = Append(@, st.leftchar * 16 + (v \div 4))]
      [] st.quad_pos = 3 ->
            [st EXCEPT !.pads = 0, !.quad_pos = 0, !.leftchar = 0,
                       !.out = Append(@, st.leftchar * 64 + v)]

\* binascii.a2b_base64 without strict mode, from character n on: characters
\* outside the alphabet are discarded, a pad that completes a quad ends the
\* decoding, and data that ends inside a quad is an error
RECURSIVE a2b_base64_from(_, _, _)
a2b_base64_from(data, n, st) ==
    IF n > Len(data) THEN [ok |-> st.quad_pos = 0, bytes |-> st.out]
    ELSE IF data[n] = 61
    THEN IF st.quad_pos >= 2 /\ st.quad_pos + st.pads + 1 >= 4
         THEN [ok |-> TRUE, bytes |-> st.out]
         ELSE a2b_base64_from(data, n + 1,
                  IF st.quad_pos >= 2 THEN [st EXCEPT !.pads = @ + 1] ELSE st)
    ELSE IF B64Value(data[n]) = -1 THEN a2b_base64_from(data, n + 1, st)
    ELSE a2b_base64_from(data, n + 1, B64Step(st, B64Value(data[n])))

\* line 481: base64.b64decode(padded, validate=False)
b64decode(s) ==
    a2b_base64_from(s, 1, [quad_pos |-> 0, leftchar |-> 0, pads |-> 0, out |-> << >>])

\* line 488: base64.urlsafe_b64decode(padded), '-' read as '+' and '_' as '/'
urlsafe_b64decode(s) ==
    b64decode([n \in 1..Len(s) |->
                  IF s[n] = 45 THEN 43 ELSE IF s[n] = 95 THEN 47 ELSE s[n]])

\* b[n] is a UTF-8 continuation byte
IsCont(b, n) == n <= Len(b) /\ b[n] \in 128..191

\* Length of the well-formed UTF-8 sequence that starts at b[n], 0 if none
\* (bytes.decode("utf-8") is strict: no overlong forms, no surrogates)
Utf8Len(b, n) ==
    IF b[n] < 128 THEN 1
    ELSE IF b[n] \in 194..223 /\ IsCont(b, n + 1) THEN 2
    ELSE IF /\ b[n] \in 224..239 /\ IsCont(b, n + 1) /\ IsCont(b, n + 2)
            /\ (b[n] = 224 => b[n + 1] >= 160)
            /\ (b[n] = 237 => b[n + 1] <= 159) THEN 3
    ELSE IF /\ b[n] \in 240..244
            /\ IsCont(b, n + 1) /\ IsCont(b, n + 2) /\ IsCont(b, n + 3)
            /\ (b[n] = 240 => b[n + 1] >= 144)
            /\ (b[n] = 244 => b[n + 1] <= 143) THEN 4
    ELSE 0

\* The code point of the well-formed sequence of length len at b[n]
Utf8CodePoint(b, n, len) ==
    CASE len = 1 -> b[n]
      [] len = 2 -> (b[n] - 192) * 64 + (b[n + 1] - 128)
      [] len = 3 -> (b[n] - 224) * 4096 + (b[n + 1] - 128) * 64 + (b[n + 2] - 128)
      [] len = 4 -> (b[n] - 240) * 262144 + (b[n + 1] - 128) * 4096
                        + (b[n + 2] - 128) * 64 + (b[n + 3] - 128)

\* decoded_bytes.decode("utf-8") from byte n on, ok = FALSE for UnicodeDecodeError
RECURSIVE Utf8From(_, _, _)
Utf8From(b, n, out) ==
    IF n > Len(b) THEN [ok |-> TRUE, s |-> out]
    ELSE IF Utf8Len(b, n) = 0 THEN [ok |-> FALSE, s |-> << >>]
    ELSE Utf8From(b, n + Utf8Len(b, n),
                  Append(out, Utf8CodePoint(b, n, Utf8Len(b, n))))

\* lines 482-485 and 489-492: UTF-8, else Latin-1 (every byte its own code point)
DecodeText(b) == IF Utf8From(b, 1, << >>).ok THEN Utf8From(b, 1, << >>).s ELSE b

\* "\n".join(lines) from line n on
RECURSIVE JoinLF(_, _)
JoinLF(lines, n) ==
    IF n > Len(lines) THEN << >>
    ELSE IF n = Len(lines) THEN lines[n]
    ELSE lines[n] \o << 10 >> \o JoinLF(lines, n + 1)

\* lines 464-469: decoded after the content_lines branch ("" stands for None,
\* which lines 503 and 506 read as "")
DecodedLines(item) ==
    IF item.content_lines.tag = "list" /\ item.content_lines.l # << >>
    THEN JoinLF(item.content_lines.l, 1)
    ELSE << >>

\* A fallback that knows the plain content only: an entry without it is
\* left with no content
LiteralFallbackContentOnly(item) ==
    IF StripCP(StrOrEmpty(item.content)) # << >>
    THEN StrOrEmpty(item.content)
    ELSE << >>

\* lines 473-477 and 494-498: the plain content if it is not blank, else the
\* content_b64 string itself
LiteralFallback(item) ==
    IF StripCP(StrOrEmpty(item.content)) # << >>
    THEN StrOrEmpty(item.content)
    ELSE item.content_b64.s

\* lines 471-498, for raw_b64 = raw
DecodedB64(item, raw) ==
    IF ~InB64Alphabets(raw) THEN LiteralFallback(item)
    ELSE IF b64decode(Padded(raw)).ok THEN DecodeText(b64decode(Padded(raw)).bytes)
    ELSE IF urlsafe_b64decode(Padded(raw)).ok
         THEN DecodeText(urlsafe_b64decode(Padded(raw)).bytes)
    ELSE LiteralFallback(item)

\* lines 464-501: decoded.  The test of line 470 is an "if" of its own, so
\* its two branches overwrite what line 467 assigned
Decoded(item) ==
    IF item.content_b64.tag = "str" /\ StripCP(item.content_b64.s) # << >>
    THEN DecodedB64(item, RemoveSpaces(StripCP(item.content_b64.s)))
    ELSE IF StripCP(StrOrEmpty(item.content)) # << >>
    THEN StrOrEmpty(item.content)
    ELSE DecodedLines(item)

\* line 457
ItemPath(item) == Strip(StrOrEmpty(item.path))

ParseFailure(err) == [error |-> err, files |-> << >>]

\* A loop that passes over an entry with an unsafe path or without content
\* and returns the others
RECURSIVE ParseFromSkipping(_, _, _)
ParseFromSkipping(items, n, normalized) ==
    IF n > Len(items)
    THEN IF normalized = << >> THEN ParseFailure("EmptyBundle")
         ELSE [error |-> None, files |-> normalized]
    ELSE IF \/ ~items[n].dict
            \/ ~is_safe_relative_path(ItemPath(items[n]))
            \/ StripCP(Decoded(items[n])) = << >>
    THEN ParseFromSkipping(items, n + 1, normalized)
    ELSE ParseFromSkipping(items, n + 1,
             Append(normalized, [path |-> BackslashToSlash(ItemPath(items[n])),
                                 content |-> Decoded(items[n])]))

\* lines 453-510: the loop from entry n on, and the check after it
RECURSIVE ParseFrom(_, _, _)
ParseFrom(items, n, normalized) ==
    IF n > Len(items)
    THEN IF normalized = << >> THEN ParseFailure("EmptyBundle")
         ELSE [error |-> None, files |-> normalized]
    ELSE IF ~items[n].dict THEN ParseFrom(items, n + 1, normalized)
    ELSE IF ~is_safe_relative_path(ItemPath(items[n])) THEN ParseFailure("UnsafePath")
    ELSE IF StripCP(Decoded(items[n])) = << >> THEN ParseFailure("EmptyFileContent")
    ELSE ParseFrom(items, n + 1,
             Append(normalized, [path |-> BackslashToSlash(ItemPath(items[n])),
                                 content |-> Decoded(items[n])]))

\* lines 443-448: files
PayloadFiles(p) == IF p.kind \in {"list", "dict"} THEN p.files ELSE JAbsent

\* lines 437-510, from the outcome of json.loads on
parse_file_bundle(p) ==
    IF p.kind = "invalid" THEN ParseFailure("InvalidBundleJSON")
    ELSE IF PayloadFiles(p).tag # "list" \/ PayloadFiles(p).l = << >>
    THEN ParseFailure("EmptyBundle")
    ELSE ParseFrom(PayloadFiles(p).l, 1, << >>)

----------------------------------------------------------------------------
(* write_module_files.  A resolved path is the sequence of its segments    *)
(* from the root; the file system maps the paths that exist to their node. *)

Dir        == [kind |-> "dir", content |-> << >>, target |-> << >>]
File(c)    == [kind |-> "file", content |-> c, target |-> << >>]
Link(dest) == [kind |-> "link", content |-> << >>, target |-> dest]

\* line 519: module_dir = (modules_root / module_name).resolve()
module_dir == << << "m" >> >>

\* line 526: the parts of module_dir / rel_path that pathlib keeps
PathParts(rel_path) ==
    SelectSeq(SplitSlash(rel_path), LAMBDA seg : seg # << >> /\ seg # << "." >>)

Parent(p) == SubSeq(p, 1, Len(p) - 1)

\* Path.resolve(): the parts from the n-th on appended to cur, a symbolic
\* link replaced by its destination and ".." by a step up
RECURSIVE Resolve(_, _, _, _)
Resolve(f, cur, parts, n) ==
    IF n > Len(parts) THEN cur
    ELSE IF parts[n] = << ".", "." >> THEN Resolve(f, Parent(cur), parts, n + 1)
    ELSE IF Append(cur, parts[n]) \in DOMAIN f /\ f[Append(cur, parts[n])].kind = "link"
    THEN Resolve(f, f[Append(cur, parts[n])].target, parts, n + 1)
    ELSE Resolve(f, Append(cur, parts[n]), parts, n + 1)

\* line 526: target
Target(f, rel_path) == Resolve(f, module_dir, PathParts(rel_path), 1)

\* target.parents
Parents(t) == { SubSeq(t, 1, n) : n \in 0..(Len(t) - 1) }

\* line 527: the test that refuses the write
Outside(t) == module_dir \notin Parents(t) /\ t # module_dir

\* lines 520 and 529: mkdir(parents=True, exist_ok=True) raises when dir or
\* one of its parents exists and is no directory
CanMkdir(f, dir) ==
    \A p \in Parents(dir) \cup {dir} : p \in DOMAIN f => f[p].kind = "dir"

MkdirParents(f, dir) ==
    [p \in DOMAIN f \cup Parents(dir) \cup {dir} |->
        IF p \in DOMAIN f THEN f[p] ELSE Dir]

\* line 530: open(target, "w") raises IsADirectoryError
IsADirectory(f, t) == t \in DOMAIN f /\ f[t].kind = "dir"

\* line 530: encoding to UTF-8 raises on a surrogate code point
CanEncode(c) == \A k \in 1..Len(c) : c[k] \notin 55296..57343

\* line 530: the file system after target.write_text(content)
WriteText(f, t, c) ==
    [p \in DOMAIN f \cup {t} |-> IF p = t THEN File(c) ELSE f[p]]

----------------------------------------------------------------------------
(* Bundles and file systems the two functions are run on *)

MaxPathLen == 3
MaxB64Len == 3
MaxFiles == 2

\* The strings of at most n characters of chars
RECURSIVE StringsOver(_, _)
StringsOver(chars, n) ==
    IF n = 0 THEN { << >> }
    ELSE LET shorter == StringsOver(chars, n - 1)
         IN  shorter \cup { Append(s, c) : s \in shorter, c \in chars }

Entry(path, lines, b64, content) ==
    [dict |-> TRUE, path |-> path, content_lines |-> lines,
     content_b64 |-> b64, content |-> content]

\* One entry with one content field or none ("x" as a line, "eQ", "z", a lone
\* surrogate as JSON "\ud800" gives it), under every short path, no path
\* and the paths the specification names
PathBundles ==
    { << Entry(p, c[1], c[2], c[3]) >> :
        p \in { JAbsent } \cup
              { JStr(q) : q \in StringsOver({"a", ".", "/", "\\", ":", " "}, MaxPathLen) \cup
                  { << "/","e","t","c","/","p","a","s","s","w","d" >>,
                    << ".",".","/",".",".","/","x" >>,
                    << "C",":","\\","x" >>,
                    << "i","n","c","l","u","d","e","/","F","o","o",".","p","h","p" >> } },
        c \in { << JList(<< << 120 >> >>), JAbsent, JAbsent >>,
                << JAbsent, JStr(<< 101, 81 >>), JAbsent >>,
                << JAbsent, JAbsent, JStr(<< 122 >>) >>,
                << JAbsent, JAbsent, JStr(<< 55296 >>) >>,
                << JAbsent, JAbsent, JAbsent >> } }

\* One entry, every short content_b64 over e Q = _ / w 6 k, blank and '!',
\* with and without the other two fields
Base64Bundles ==
    { << Entry(JStr(<< "a" >>), l, b, c) >> :
        l \in { JAbsent, JList(<< << 120 >>, << >> >>) },
        b \in { JAbsent, JList(<< >>) } \cup
              { JStr(s) : s \in StringsOver({101, 81, 61, 95, 47, 119, 54, 107, 32, 33},
                                            MaxB64Len) },
        c \in { JAbsent, JStr(<< 122 >>) } }

\* One entry, every combination of kinds of the three fields
FieldBundles ==
    { << Entry(JStr(<< "a" >>), l, b, c) >> :
        l \in { JAbsent, JList(<< >>), JList(<< << 120 >> >>),
                JList(<< << 120 >>, << >> >>), JList(<< << 32 >> >>), JStr(<< 120 >>) },
        b \in { JAbsent, JStr(<< 101, 81 >>), JStr(<< 33 >>), JStr(<< 32 >>) },
        c \in { JAbsent, JStr(<< 122 >>), JStr(<< 32 >>), JStr(<< 55296 >>) } }

\* The entries of the longer bundles; the last is no JSON object
EntryMenu ==
    { Entry(JStr(<< "a" >>), JList(<< << 120 >> >>), JAbsent, JAbsent),
      Entry(JStr(<< "b", "\\", "c" >>), JAbsent, JAbsent, JStr(<< 122 >>)),
      Entry(JStr(<< "." >>), JList(<< << 120 >> >>), JAbsent, JAbsent),
      Entry(JStr(<< ".", ".", "\\", "a" >>), JList(<< << 120 >> >>), JAbsent, JAbsent),
      Entry(JStr(<< "a", "/", "a" >>), JAbsent, JStr(<< 101, 81 >>), JAbsent),
      Entry(JStr(<< "b" >>), JAbsent, JAbsent, JStr(<< 55296 >>)),
      Entry(JStr(<< "a" >>), JAbsent, JAbsent, JAbsent),
      [dict |-> FALSE, path |-> JAbsent, content_lines |-> JAbsent,
       content_b64 |-> JAbsent, content |-> JAbsent] }

RECURSIVE EntryLists(_)
EntryLists(n) ==
    IF n = 0 THEN { << >> }
    ELSE LET shorter == EntryLists(n - 1)
         IN  shorter \cup { Append(l, x) : l \in shorter, x \in EntryMenu }

\* What json.loads makes of output_text when it is no list of entries: an
\* exception (not JSON), a scalar, an object without "files" or with a
\* "files" that is no list
OddPayloads ==
    { [kind |-> "invalid", files |-> JAbsent], [kind |-> "scalar", files |-> JAbsent],
      [kind |-> "dict", files |-> JAbsent], [kind |-> "dict", files |-> JStr(<< >>)] }

\* lines 443-446: the payload is the list itself ("list") or an object with
\* the list under "files" ("dict")
Payloads(kinds, lists) == { [kind |-> k, files |-> JList(l)] : k \in kinds, l \in lists }

\* The file system before the call: module_dir missing or present, and its
\* entry "a" missing, a file, a directory, a link to the directory /o
\* outside or a link to module_dir itself
FileSystem(a) ==
    [p \in { << >>, << << "o" >> >> }
            \cup (IF a = "nodir" THEN {} ELSE {module_dir})
            \cup (IF a \in {"nodir", "none"} THEN {} ELSE {Append(module_dir, << "a" >>)}) |->
        IF p # Append(module_dir, << "a" >>) THEN Dir
        ELSE CASE a = "file" -> File(<< 111 >>)
               [] a = "dir" -> Dir
               [] a = "out" -> Link(<< << "o" >> >>)
               [] a = "self" -> Link(module_dir)]

\* str.encode("utf-8") of one code point (no surrogate)
Utf8Bytes(cp) ==
    IF cp < 128 THEN << cp >>
    ELSE IF cp < 2048 THEN << 192 + (cp \div 64), 128 + (cp % 64) >>
    ELSE IF cp < 65536
    THEN << 224 + (cp \div 4096), 128 + ((cp \div 64) % 64), 128 + (cp % 64) >>
    ELSE << 240 + (cp \div 262144), 128 + ((cp \div 4096) % 64),
            128 + ((cp \div 64) % 64), 128 + (cp % 64) >>

\* str.encode("utf-8") from character n on
RECURSIVE Utf8Encode(_, _)
Utf8Encode(t, n) == IF n > Len(t) THEN << >> ELSE Utf8Bytes(t[n]) \o Utf8Encode(t, n + 1)

\* The character for the 6-bit value v, in the standard alphabet or in the
\* URL-safe one ('-' for 62 and '_' for 63)
B64Char(v, urlsafe) ==
    IF v < 26 THEN 65 + v
    ELSE IF v < 52 THEN 71 + v
    ELSE IF v < 62 THEN v - 4
    ELSE IF v = 62 THEN (IF urlsafe THEN 45 ELSE 43)
    ELSE (IF urlsafe THEN 95 ELSE 47)

\* base64.b64encode / urlsafe_b64encode of the bytes from the n-th on, the
\* '=' padding kept or left out
RECURSIVE B64Encode(_, _, _, _)
B64Encode(b, n, urlsafe, padding) ==
    IF n > Len(b) THEN << >>
    ELSE IF n = Len(b)
    THEN << B64Char(b[n] \div 4, urlsafe), B64Char((b[n] % 4) * 16, urlsafe) >>
            \o (IF padding THEN << 61, 61 >> ELSE << >>)
    ELSE IF n + 1 = Len(b)
    THEN << B64Char(b[n] \div 4, urlsafe),
            B64Char((b[n] % 4) * 16 + (b[n + 1] \div 16), urlsafe),
            B64Char((b[n + 1] % 16) * 4, urlsafe) >>
            \o (IF padding THEN << 61 >> ELSE << >>)
    ELSE << B64Char(b[n] \div 4, urlsafe),
            B64Char((b[n] % 4) * 16 + (b[n + 1] \div 16), urlsafe),
            B64Char((b[n + 1] % 16) * 4 + (b[n + 2] \div 64), urlsafe),
            B64Char(b[n + 2] % 64, urlsafe) >>
            \o B64Encode(b, n + 3, urlsafe, padding)

\* The content_b64 a producer sends for the text t
EncodedText(t, urlsafe, padding) == B64Encode(Utf8Encode(t, 1), 1, urlsafe, padding)

MaxTextLen == 2

\* The texts sent through content_b64: c, e with acute accent, '>' and the
\* replacement character U+FFFD, blank texts left out
RoundTripTexts == StringsOver({ 99, 233, 62, 65533 }, MaxTextLen) \ { << >> }

\* One entry whose only content field is content_b64, holding an encoding
\* of a text
RoundTripBundles ==
    { << Entry(JStr(<< "a" >>), JAbsent, JStr(EncodedText(t, u, pad)), JAbsent) >> :
        t \in RoundTripTexts, u \in BOOLEAN, pad \in BOOLEAN }

BundleInputs ==
    ((OddPayloads \cup Payloads({"list"}, PathBundles)
            \cup Payloads({"list", "dict"}, EntryLists(MaxFiles)))
        \X { FileSystem(a) : a \in {"nodir", "none", "file", "dir", "out", "self"} })
    \cup (Payloads({"list"}, Base64Bundles \cup FieldBundles \cup RoundTripBundles)
             \X { FileSystem("none") })

----------------------------------------------------------------------------
(* parse_file_bundle(output_text) followed by write_module_files, as in    *)
(* lines 753-764 of generate_from_codebase.main                            *)

InitBundle ==
    /\ SpanIdle
    /\ DiffIdle
    /\ ToolsIdle
    /\ \E inp \in BundleInputs : payload = inp[1] /\ fs = inp[2]
    /\ bundle_pc = "start"
    /\ files = << >>
    /\ bundle_error = None
    /\ written = << >>

\* parse_file_bundle returns the normalized list
ParseReturns ==
    /\ bundle_pc = "start"
    /\ parse_file_bundle(payload).error = None
    /\ files' = parse_file_bundle(payload).files
    /\ bundle_pc' = "parsed"
    /\ UNCHANGED << payload, bundle_error, fs, written >>

\* parse_file_bundle raises
ParseRaises ==
    /\ bundle_pc = "start"
    /\ parse_file_bundle(payload).error # None
    /\ bundle_error' = parse_file_bundle(payload).error
    /\ bundle_pc' = "failed"
    /\ UNCHANGED << payload, files, fs, written >>

\* lines 519-522
MakeModuleDir ==
    /\ bundle_pc = "parsed"
    /\ fs' = MkdirParents(fs, module_dir)
    /\ bundle_pc' = "writing"
    /\ UNCHANGED << payload, files, bundle_error, written >>

\* The entry the loop of line 523 is at
HasEntry == bundle_pc = "writing" /\ Len(written) < Len(files)
item == files[Len(written) + 1]

\* A refusal that rolls the bundle back: the files written for the earlier
\* entries are removed before the error is raised
RefuseEntryWithRollback ==
    /\ HasEntry
    /\ Outside(Target(fs, item.path))
    /\ fs' = [p \in DOMAIN fs \ Range(written) |-> fs[p]]
    /\ written' = << >>
    /\ bundle_error' = "PathEscape"
    /\ bundle_pc' = "failed"
    /\ UNCHANGED << payload, files >>

\* lines 527-528
RefuseEntry ==
    /\ HasEntry
    /\ Outside(Target(fs, item.path))
    /\ bundle_error' = "PathEscape"
    /\ bundle_pc' = "failed"
    /\ UNCHANGED << payload, files, fs, written >>

\* line 529 or the open of line 530 raises
WriteBlocked ==
    /\ HasEntry
    /\ ~Outside(Target(fs, item.path))
    /\ \/ ~CanMkdir(fs, Parent(Target(fs, item.path)))
       \/ IsADirectory(fs, Target(fs, item.path))
    /\ bundle_error' = "OSError"
    /\ bundle_pc' = "failed"
    /\ UNCHANGED << payload, files, fs, written >>

\* line 530 raises after the file was opened for writing
WriteUnencodable ==
    /\ HasEntry
    /\ ~Outside(Target(fs, item.path))
    /\ CanMkdir(fs, Parent(Target(fs, item.path)))
    /\ ~IsADirectory(fs, Target(fs, item.path))
    /\ ~CanEncode(item.content)
    /\ fs' = WriteText(MkdirParents(fs, Parent(Target(fs, item.path))),
                       Target(fs, item.path), << >>)
    /\ bundle_error' = "UnicodeEncodeError"
    /\ bundle_pc' = "failed"
    /\ UNCHANGED << payload, files, written >>

\* lines 529-531
WriteEntry ==
    /\ HasEntry
    /\ ~Outside(Target(fs, item.path))
    /\ CanMkdir(fs, Parent(Target(fs, item.path)))
    /\ ~IsADirectory(fs, Target(fs, item.path))
    /\ CanEncode(item.content)
    /\ fs' = WriteText(MkdirParents(fs, Parent(Target(fs, item.path))),
                       Target(fs, item.path), item.content)
    /\ written' = Append(written, Target(fs, item.path))
    /\ UNCHANGED << payload, files, bundle_error, bundle_pc >>

\* line 533
WriteReturns ==
    /\ bundle_pc = "writing"
    /\ Len(written) = Len(files)
    /\ bundle_pc' = "done"
    /\ UNCHANGED << payload, files, bundle_error, fs, written >>

NextBundle ==
    \/ ParseReturns /\ UNCHANGED << spanVars, diffVars, toolVars >>
    \/ ParseRaises /\ UNCHANGED << spanVars, diffVars, toolVars >>
    \/ MakeModuleDir /\ UNCHANGED << spanVars, diffVars, toolVars >>
    \/ RefuseEntry /\ UNCHANGED << spanVars, diffVars, toolVars >>
    \/ WriteBlocked /\ UNCHANGED << spanVars, diffVars, toolVars >>
    \/ WriteUnencodable /\ UNCHANGED << spanVars, diffVars, toolVars >>
    \/ WriteEntry /\ UNCHANGED << spanVars, diffVars, toolVars >>
    \/ WriteReturns /\ UNCHANGED << spanVars, diffVars, toolVars >>

SpecBundle == InitBundle /\ [][NextBundle]_vars

----------------------------------------------------------------------------
(* Lexical context of an offset, for the statements about the locator.     *)
(* The scanner is run as a pure function from a given offset in Normal     *)
(* state; an iteration that would return is continued past its brace.      *)

Continue(n) == IF n.ret THEN [n EXCEPT !.ret = FALSE, !.i = n.i + 1] ELSE n

RECURSIVE RunTo(_, _, _)
RunTo(t, s, upto) ==
    IF s.i >= upto \/ s.i >= Len(t) THEN s ELSE RunTo(t, Continue(ScanIter(t, s)), upto)

\* The scanner's state on reaching offset k, started in Normal state at from
ContextAt(t, from, k) == RunTo(t, ScanInit(from), k)

\* Offset k holds a character the scanner started at from reads in Normal state
NormalAt(t, from, k) ==
    /\ from <= k
    /\ k < Len(t)
    /\ ContextAt(t, from, k).i = k
    /\ InNormal(ContextAt(t, from, k))

\* "{" minus "}" among the Normal-state characters of t[from:upto]
BraceBalance(t, from, upto) ==
    Cardinality({ k \in from..(upto - 1) : t[k + 1] = "{" /\ NormalAt(t, from, k) })
  - Cardinality({ k \in from..(upto - 1) : t[k + 1] = "}" /\ NormalAt(t, from, k) })

\* The first "{" at or after offset lo that the scanner started at from reads
\* in Normal state, -1 if there is none
RealBraceOpen(t, from, lo) ==
    LeastOr({ k \in lo..(Len(t) - 1) : t[k + 1] = "{" /\ NormalAt(t, from, k) })

\* The offset just past the first "}" after open at which the balance counted
\* from open is back to 0, -1 if there is none
RealSpanEnd(t, open) ==
    IF open = -1 THEN -1
    ELSE LeastOr({ e \in (open + 1)..Len(t) : BraceBalance(t, open, e) = 0 })

SignatureOffsets(t) == { c.s : c \in Matches(t) }

\* The offset of the 'function' keyword of the only signature of t
KeywordOffset(t) == FindFunctionKw(t, SearchSignature(t))

\* The body's opening brace as the locator is specified to find it
SpecifiedBraceOpen(t) ==
    RealBraceOpen(t, KeywordOffset(t), SearchSignature(t).e)

Finished == pc \in {"replace", "done"}

----------------------------------------------------------------------------
(* Claims about the Function Span Locator and the replacer *)

\* C2: the body-opening brace the locator chooses is the first "{" after the
\* matched signature that is outside every string literal and comment
\* (string and comment context counted from the signature's keyword).
C2_BraceOpenOutsideLiterals ==
    (pc \in {"scan", "replace", "done"} /\ m # NoMatch)
        => brace_open = SpecifiedBraceOpen(text)

\* C3: when the signature of f occurs exactly once and its braces balance,
\* the locator returns (start, end) with 0 <= start < end <= len(D), D[start]
\* the first character of the function keyword, D[end - 1] = "}", and end
\* just past the first "}" that brings the Normal-state brace balance counted
\* from the body's opening brace back to 0.
C3_Precondition ==
    /\ Cardinality(SignatureOffsets(text)) = 1
    /\ RealSpanEnd(text, SpecifiedBraceOpen(text)) # -1

C3_SpanOfBalancedFunction ==
    (Finished /\ C3_Precondition) =>
        /\ outcome = "Span"
        /\ 0 <= start /\ start < span_end /\ span_end <= Len(text)
        /\ start = KeywordOffset(text)
        /\ MatchWord(text, start, KwFunction) # -1
        /\ text[span_end] = "}"
        /\ span_end = RealSpanEnd(text, SpecifiedBraceOpen(text))

\* C4: a returned Span starts outside every string literal and comment of
\* the document (context counted from the start of the document).
C4_SpanStartsOutsideLiterals ==
    outcome = "Span" => NormalAt(text, 0, start)

\* C9: the locator terminates, with exactly one of: a Span, whose closing
\* brace was reached in Normal state at depth 0; FunctionNotFound, exactly
\* when no signature matches; or unbalanced braces (no "{" after the
\* signature, or the end of the document reached before the depth is back
\* to 0).
C9_Outcomes ==
    /\ outcome \in {None, "Span", "FunctionNotFound", "NoOpeningBrace", "BraceMismatch"}
    /\ Finished <=> outcome # None
    /\ (outcome = "FunctionNotFound") <=> (Finished /\ SearchSignature(text) = NoMatch)
    /\ outcome = "Span" =>
          /\ text[span_end] = "}"
          /\ i = span_end - 1
          /\ depth = 0
          /\ InNormal(Locals)
          /\ NormalAt(text, brace_open, span_end - 1)
          /\ BraceBalance(text, brace_open, span_end) = 0
          /\ \A e \in (brace_open + 1)..(span_end - 1) :
                BraceBalance(text, brace_open, e) > 0
    /\ outcome = "NoOpeningBrace" =>
          \A k \in SearchSignature(text).e..(Len(text) - 1) : text[k + 1] # "{"
    /\ outcome = "BraceMismatch" =>
          \A e \in (brace_open + 1)..Len(text) : BraceBalance(text, brace_open, e) > 0

\* Termination: a call that has not ended can take its next step, and the
\* loop has run at most len(D) iterations, each moving i forward.
C9_Terminates ==
    /\ pc # "done" => ENABLED NextSpan
    /\ iterations <= Len(text)
    /\ pc = "scan" => i >= brace_open + iterations

C9_TerminatesWithOneOutcome == C9_Outcomes /\ C9_Terminates

C9_Witness ==
    /\ pc = "done"
    /\ outcome = "BraceMismatch"
    /\ in_sq
    /\ depth > 0

\* C10: when the locator returns (start, end), the replacer returns
\* D[0:start] + trim(n) + D[end:]: every character before start and from end
\* on is kept, in order, and what lies between is n without its leading and
\* trailing whitespace; when the locator fails there is no document.
AllSpace(t) == \A k \in 1..Len(t) : IsSpace(t[k])

\* x is n without its leading and trailing whitespace
IsTrimOf(x, n) ==
    /\ x # << >> => ~IsSpace(x[1]) /\ ~IsSpace(x[Len(x)])
    /\ \E a \in 0..Len(n) :
          /\ a + Len(x) <= Len(n)
          /\ AllSpace(Slice(n, 0, a))
          /\ Slice(n, a, a + Len(x)) = x
          /\ AllSpace(Slice(n, a + Len(x), Len(n)))

C10_ReplaceTouchesOnlySpan ==
    /\ (pc = "done" /\ outcome = "Span") =>
          /\ Len(new_text) >= Len(text) - (span_end - start)
          /\ \A k \in 1..start : new_text[k] = text[k]
          /\ \A k \in 1..(Len(text) - span_end) :
                new_text[Len(new_text) - k + 1] = text[Len(text) - k + 1]
          /\ IsTrimOf(Slice(new_text, start, Len(new_text) - (Len(text) - span_end)),
                      new_function_text)
    /\ outcome \in {"FunctionNotFound", "NoOpeningBrace", "BraceMismatch"} =>
          (pc = "done" /\ new_text = NoText)

C10_Witness ==
    /\ pc = "done"
    /\ outcome = "Span"
    /\ start > 0
    /\ span_end < Len(text)
    /\ Len(Strip(new_function_text)) > 0
    /\ Len(Strip(new_function_text)) < Len(new_function_text)

----------------------------------------------------------------------------
(* Claims about the hunk-count repair *)

DigitValue(c) == (CHOOSE k \in 1..10 : Digits[k] = c) - 1

RECURSIVE StrToIntUpTo(_, _)
StrToIntUpTo(d, n) ==
    IF n = 0 THEN 0 ELSE 10 * StrToIntUpTo(d, n - 1) + DigitValue(d[n])

StrToInt(d) == StrToIntUpTo(d, Len(d))

\* << oldCount, newCount >> as a header line states them, -1 for a count
\* the header does not state
StatedCounts(line) ==
    << IF HdrA3(line) > HdrA2(line)
       THEN StrToInt(Slice(line, HdrA2(line) + 1, HdrA3(line))) ELSE -1,
       IF HdrB3(line) > HdrB2(line)
       THEN StrToInt(Slice(line, HdrB2(line) + 1, HdrB3(line))) ELSE -1 >>

FirstCharIn(line, cs) == Len(line) > 0 /\ line[1] \in cs

\* << number of lines of lines[from:to] that start with ' ' or '-',
\*    number that start with ' ' or '+' >>
PrefixCounts(lines, from, to) ==
    << Cardinality({ k \in from..(to - 1) : FirstCharIn(lines[k + 1], {" ", "-"}) }),
       Cardinality({ k \in from..(to - 1) : FirstCharIn(lines[k + 1], {" ", "+"}) }) >>

\* Index of the first line after the header at index h that is a hunk header
\* or file boundary, the number of lines if there is none
NextBoundary(lines, h) ==
    Least({ j \in (h + 1)..Len(lines) : j = Len(lines) \/ IsBoundary(lines[j + 1]) })

\* The same, stopping also at the first line that starts with none of
\* ' ', '+', '-', '\'
NextBoundaryOrMalformed(lines, h) ==
    Least({ j \in (h + 1)..Len(lines) :
              \/ j = Len(lines)
              \/ IsBoundary(lines[j + 1])
              \/ ~FirstCharIn(lines[j + 1], {" ", "+", "-", "\\"}) })

HeaderIndexes(lines) == { h \in 0..(Len(lines) - 1) : IsHunkHeader(lines[h + 1]) }

\* C5 as stated: after the repair, every header states the number of its
\* body lines -- the lines up to the next hunk header or file boundary --
\* that start with ' ' or '-' and with ' ' or '+'; '\' lines count for neither.
C5_CountsOverWholeBody ==
    diff_pc # "start" =>
        \A h \in HeaderIndexes(SplitLines(diff_text)) :
            StatedCounts(SplitLines(repaired)[h + 1])
                = PrefixCounts(SplitLines(diff_text), h + 1,
                               NextBoundary(SplitLines(diff_text), h))

\* C5 amended: the same, for the body lines up to the next hunk header, file
\* boundary or first line that starts with none of ' ', '+', '-', '\'.
C5_CountsUpToMalformedLine ==
    diff_pc # "start" =>
        \A h \in HeaderIndexes(SplitLines(diff_text)) :
            StatedCounts(SplitLines(repaired)[h + 1])
                = PrefixCounts(SplitLines(diff_text), h + 1,
                               NextBoundaryOrMalformed(SplitLines(diff_text), h))

C5_Witness ==
    /\ diff_pc = "once"
    /\ SplitLines(diff_text) = ExampleHunk
    /\ StatedCounts(SplitLines(diff_text)[1]) = << 9, 9 >>
    /\ StatedCounts(SplitLines(repaired)[1]) = << 2, 3 >>

\* C6 as stated: the repair is idempotent on every text.
C6_Idempotent ==
    diff_pc = "twice" => repaired_twice = repaired

\* C6 amended: a second application leaves every line, so every header, as
\* the first left it; the texts are equal unless the first result has a
\* hunk marker and ends with a newline, and then the second application
\* only removes that newline.
EndsWithNewline(t) == Len(t) > 0 /\ t[Len(t)] = "\n"

C6_IdempotentUpToTrailingNewline ==
    diff_pc = "twice" =>
        /\ repaired_twice = repaired \/ repaired = repaired_twice \o << "\n" >>
        /\ repaired_twice # repaired
              <=> (EndsWithNewline(repaired) /\ Contains2(repaired, "@", "@"))
        /\ \A n \in 1..LineCount(repaired_twice) :
              SplitLines(repaired_twice)[n] = SplitLines(repaired)[n]

C6_Witness ==
    /\ diff_pc = "twice"
    /\ repaired_twice # repaired
    /\ \E h \in HeaderIndexes(SplitLines(diff_text)) :
          /\ SplitLines(repaired)[h + 1] # SplitLines(diff_text)[h + 1]
          /\ SplitLines(repaired_twice)[h + 1] = SplitLines(repaired)[h + 1]

----------------------------------------------------------------------------
(* Claims about the file bundle *)

\* The object entries of the bundle, in order
ObjectEntries == SelectSeq(PayloadFiles(payload).l, LAMBDA x : x.dict)

\* C1: every returned entry whose content_lines is a non-empty list has
\* exactly those lines joined with a newline as its content, whatever
\* content_b64 and content hold.
C1_ContentLinesTakePrecedence ==
    bundle_pc = "parsed" =>
        \A n \in 1..Len(files) :
            (/\ ObjectEntries[n].content_lines.tag = "list"
             /\ ObjectEntries[n].content_lines.l # << >>)
                => files[n].content = JoinLF(ObjectEntries[n].content_lines.l, 1)

StrictlyInside(t) ==
    Len(t) > Len(module_dir) /\ SubSeq(t, 1, Len(module_dir)) = module_dir

\* C7: an entry is written only when its resolved target is strictly inside
\* module_dir; for any other entry the step ends in PathEscape and leaves
\* the file system as it was.
C7_RefusedUnlessStrictlyInside ==
    [][ (HasEntry /\ ~StrictlyInside(Target(fs, item.path)))
            => (bundle_error' = "PathEscape" /\ fs' = fs /\ written' = written) ]_vars

IsSeparator(c) == c \in {"/", "\\"}

\* p has a ".." segment when split on both '/' and '\'
HasDotDot(p) ==
    \E a \in 1..(Len(p) - 1) :
        /\ p[a] = "." /\ p[a + 1] = "."
        /\ a = 1 \/ IsSeparator(p[a - 1])
        /\ a + 1 = Len(p) \/ IsSeparator(p[a + 2])

\* The four conditions of the claim, on the path as the entry gives it
UnsafeAsStated(p) ==
    \/ p = << >>
    \/ p[1] = "/"
    \/ ":" \in Range(p)
    \/ HasDotDot(p)

\* What C8 says of every returned entry
ReturnedPathsAreSafe ==
    \A n \in 1..Len(files) :
        /\ files[n].path # << >>
        /\ files[n].path[1] # "/"
        /\ ":" \notin Range(files[n].path)
        /\ "\\" \notin Range(files[n].path)
        /\ ~HasDotDot(files[n].path)

\* C8 as stated: the parse ends in UnsafePath exactly when some entry's path
\* is empty, starts with '/', contains ':' or has a ".." segment; every
\* returned path is relative, without ':', ".." and backslash.
C8_UnsafePathExactlyWhenStated ==
    bundle_pc # "start" =>
        /\ bundle_error = "UnsafePath"
              <=> \E n \in 1..Len(ObjectEntries) :
                      UnsafeAsStated(StrOrEmpty(ObjectEntries[n].path))
        /\ ReturnedPathsAreSafe

\* The same conditions on the path with surrounding whitespace trimmed and
\* '\' read as '/'
Blank(p) == \A k \in 1..Len(p) : IsSpace(p[k])

UnsafeTrimmed(p) ==
    \/ Blank(p)
    \/ \E a \in 1..Len(p) : IsSeparator(p[a]) /\ Blank(SubSeq(p, 1, a - 1))
    \/ ":" \in Range(p)
    \/ \E a \in 1..(Len(p) - 1) :
          /\ p[a] = "." /\ p[a + 1] = "."
          /\ Blank(SubSeq(p, 1, a - 1)) \/ IsSeparator(p[a - 1])
          /\ Blank(SubSeq(p, a + 2, Len(p))) \/ IsSeparator(p[a + 2])

\* C8 amended: the parse ends in UnsafePath exactly when some object entry
\* has an unsafe path and every object entry before it has a safe path and
\* non-blank decoded content, unsafe being judged after trimming and with
\* '\' read as '/'; every returned path is relative, without ':', ".." and
\* backslash.
C8_UnsafePathExactlyWhenFirstFault ==
    bundle_pc # "start" =>
        /\ bundle_error = "UnsafePath"
              <=> \E n \in 1..Len(ObjectEntries) :
                      /\ UnsafeTrimmed(StrOrEmpty(ObjectEntries[n].path))
                      /\ \A j \in 1..(n - 1) :
                            /\ ~UnsafeTrimmed(StrOrEmpty(ObjectEntries[j].path))
                            /\ StripCP(Decoded(ObjectEntries[j])) # << >>
        /\ ReturnedPathsAreSafe

C8_Witness ==
    /\ bundle_pc = "failed"
    /\ bundle_error = "UnsafePath"
    /\ Len(ObjectEntries) = 2
    /\ StrOrEmpty(ObjectEntries[1].path) = << "b", "\\", "c" >>
    /\ StrOrEmpty(ObjectEntries[2].path) = << ".", ".", "\\", "a" >>

----------------------------------------------------------------------------
(* snippet_replace_to_patch.main(argv), lines 45-63                        *)

\* .replace("\r\n", "\n").replace("\r", "\n")
NormalizeNewlines(t) ==
    LET kept == { k \in 1..Len(t) : ~(t[k] = "\r" /\ k < Len(t) /\ t[k + 1] = "\n") }
        at(n) == CHOOSE k \in kept : Cardinality({ h \in kept : h < k }) = n - 1
    IN  [n \in 1..Cardinality(kept) |-> IF t[at(n)] = "\r" THEN "\n" ELSE t[at(n)]]

\* needle occurs in t at offset k
OccursAt(t, needle, k) ==
    /\ k + Len(needle) <= Len(t)
    /\ \A h \in 1..Len(needle) : t[k + h] = needle[h]

\* t.find(needle): the offset of its first occurrence, -1 if there is none
Find(t, needle) == LeastOr({ k \in 0..Len(t) : OccursAt(t, needle, k) })

\* [a-zA-Z0-9]* from offset p (greedy)
RECURSIVE SkipAlnum(_, _)
SkipAlnum(t, p) ==
    IF p < Len(t) /\ IsWord(t[p + 1]) /\ t[p + 1] # "_" THEN SkipAlnum(t, p + 1) ELSE p

\* The grave accent U+0060, which a TLA+ string cannot hold
Backtick == "grave"

Fence == << Backtick, Backtick, Backtick >>

\* re.sub of line 11, ^FENCE[a-zA-Z0-9]*\s*\n at the start of the text: the greedy \s* gives back as
\* far as the last newline of the white space that follows the fence
StripLeadingFence(t) ==
    LET a  == SkipAlnum(t, 3)
        b  == SkipSpaces(t, a)
        nl == { k \in a..(b - 1) : t[k + 1] = "\n" }
    IN  IF StartsWith(t, Fence) /\ nl # {}
        THEN Slice(t, 1 + CHOOSE k \in nl : \A h \in nl : h <= k, Len(t))
        ELSE t

\* re.sub of line 12, \nFENCE\s*$
StripTrailingFence(t) ==
    LET at == { k \in 0..Len(t) :
                  /\ OccursAt(t, << "\n" >> \o Fence, k)
                  /\ \A h \in (k + 5)..Len(t) : IsSpace(t[h]) }
    IN  IF at = {} THEN t ELSE Slice(t, 0, Least(at))

\* lines 9-13
strip_wrapping(t) ==
    Strip(StripTrailingFence(StripLeadingFence(Strip(t)))) \o << "\n" >>

\* \*+ from offset p (greedy)
RECURSIVE SkipStars(_, _)
SkipStars(t, p) ==
    IF p < Len(t) /\ t[p + 1] = "*" THEN SkipStars(t, p + 1) ELSE p

\* (?:(?://|/\*+|\*+)\s*)? from offset a: the offset after it.  What follows
\* the group is a full stop, so each run is taken to its end.
AfterCommentOpener(line, a) ==
    IF OccursAt(line, << "/","/" >>, a) THEN SkipSpaces(line, a + 2)
    ELSE IF OccursAt(line, << "/","*" >>, a) THEN SkipSpaces(line, SkipStars(line, a + 1))
    ELSE IF OccursAt(line, << "*" >>, a) THEN SkipSpaces(line, SkipStars(line, a))
    ELSE a

\* placeholder_line.match(line), the pattern of line 21:
\* ^\s*(?:(?://|/\*+|\*+)\s*)?\.\.\.\s*(?:\*/\s*)?$
PlaceholderLine(line) ==
    LET b == AfterCommentOpener(line, SkipSpaces(line, 0))
        c == SkipSpaces(line, b + 3)
    IN  /\ OccursAt(line, << ".",".","." >>, b)
        /\ \/ c = Len(line)
           \/ OccursAt(line, << "*","/" >>, c) /\ SkipSpaces(line, c + 2) = Len(line)

\* lines 16-24: TRUE when check_no_placeholders raises
check_no_placeholders(t) ==
    \/ Find([k \in 1..Len(t) |-> Lower(t[k])],
            << "e","x","i","s","t","i","n","g"," ","c","o","d","e" >>) # -1
    \/ \E n \in 1..LineCount(t) : PlaceholderLine(SplitLines(t)[n])

\* line 52
expected_start ==
    << " "," "," "," "," "," "," "," ","$","e","m","a","i","l","A","d",
       "d","r","e","s","s","C","o","l","l","e","c","t","i","o","n"," ",
       "="," ","a","r","r","a","y","(",")",";"," ","/","/"," ","u","s",
       "e","d"," ","i","n"," ","l","i","n","k","i","n","g"," ","t","o",
       " ","b","e","a","n","s"," ","b","e","l","o","w" >>

\* t.replace(old, new, 1), for an old that occurs in t
ReplaceFirst(t, old, new) ==
    Slice(t, 0, Find(t, old)) \o new \o Slice(t, Find(t, old) + Len(old), Len(t))

(* The three files main reads: every target text and original snippet of   *)
(* up to MaxDocLen and 2 characters, and generated snippets with and       *)
(* without the required first line, fences and placeholders.               *)

MaxDocLen == 2

PhpFiles == StringsOver({"a", "\r", "\n"}, MaxDocLen)

SnippetFiles == StringsOver({"a", "\n"}, 2)

GeneratedFiles ==
    { expected_start \o << "\n","a","\n" >>,
      Fence \o << "p","h","p","\n" >> \o expected_start
          \o << "\r","\n","a","\n" >> \o Fence \o << "\n" >>,
      << "a","\n",".",".",".","\n" >>,
      << "/","*","*"," ",".",".","."," ","*","/" >>,
      << "/","/"," ","E","x","i","s","t","i","n","g"," ","C","o","d","e","\n" >>,
      << "a" >>,
      << >> }

InitSnippet ==
    /\ AgentIdle
    /\ SpanIdle
    /\ DiffIdle
    /\ BundleIdle
    /\ ValidateIdle
    /\ php_text \in PhpFiles
    /\ original_snippet \in SnippetFiles
    /\ generated_snippet \in GeneratedFiles
    /\ snippet_pc = "read"
    /\ snippet_error = None
    /\ new_php_text = NoText

\* lines 45-48
ReadSnippets ==
    /\ snippet_pc = "read"
    /\ php_text' = NormalizeNewlines(php_text)
    /\ original_snippet' = NormalizeNewlines(original_snippet)
    /\ generated_snippet' = NormalizeNewlines(strip_wrapping(generated_snippet))
    /\ snippet_pc' = "check"
    /\ UNCHANGED << snippet_error, new_php_text >>

\* line 50: check_no_placeholders raises
PlaceholderFound ==
    /\ snippet_pc = "check"
    /\ check_no_placeholders(generated_snippet)
    /\ snippet_error' = "Placeholder"
    /\ snippet_pc' = "done"
    /\ UNCHANGED << php_text, original_snippet, generated_snippet, new_php_text >>

\* lines 53-54: the snippet does not start with expected_start
BadStart ==
    /\ snippet_pc = "check"
    /\ ~check_no_placeholders(generated_snippet)
    /\ ~StartsWith(generated_snippet, expected_start)
    /\ snippet_error' = "BadStart"
    /\ snippet_pc' = "done"
    /\ UNCHANGED << php_text, original_snippet, generated_snippet, new_php_text >>

\* Lines 56-63 are reached only past the guard of line 53, which no text
\* strip_wrapping returns passes (StartGuardNeverPasses below): main
\* has no further step.
NextSnippet ==
    \/ ReadSnippets /\ UNCHANGED << spanVars, diffVars, bundleVars, validateVars, agentVars >>
    \/ PlaceholderFound /\ UNCHANGED << spanVars, diffVars, bundleVars, validateVars, agentVars >>
    \/ BadStart /\ UNCHANGED << spanVars, diffVars, bundleVars, validateVars, agentVars >>

SpecSnippet == InitSnippet /\ [][NextSnippet]_vars

\* No run gets past the guard of line 53
StartGuardNeverPasses ==
    snippet_pc = "check" => ~StartsWith(generated_snippet, expected_start)

----------------------------------------------------------------------------
(* Claims about the snippet replacer *)

\* C11: a run whose generated snippet holds the required first line and no
\* placeholder ends with SnippetNotFound when original_snippet does not
\* occur in php_text, and otherwise returns php_text with exactly the first
\* occurrence replaced by generated_snippet: the text before it and the
\* text after it, later occurrences included, are unchanged.
C11_FirstOccurrenceReplaced ==
    (/\ snippet_pc = "done"
     /\ snippet_error # "Placeholder"
     /\ StartsWith(generated_snippet, Strip(expected_start))) =>
        IF Find(php_text, original_snippet) = -1
        THEN snippet_error = "SnippetNotFound"
        ELSE /\ snippet_error = None
             /\ new_php_text = ReplaceFirst(php_text, original_snippet, generated_snippet)

----------------------------------------------------------------------------
(* validate_generated_output: the checks on the text of an artifact        *)

\* Finding(severity, code, message); message holds the part of the message
\* that varies with the text (a path, a line, the linter's output)
Finding(severity, code, message) ==
    [severity |-> severity, code |-> code, message |-> message]

\* ^ under re.MULTILINE at offset k
AtLineStart(t, k) == IF k = 0 THEN TRUE ELSE k <= Len(t) /\ t[k] = "\n"

\* \b at offset k
AtWordBoundary(t, k) ==
    (k > 0 /\ k <= Len(t) /\ IsWord(t[k])) # (k < Len(t) /\ IsWord(t[k + 1]))

\* One of the words ws, matched case-insensitively at offset k, with \b
\* after it: the offsets after such a match
WordEnds(t, k, ws) ==
    { e \in Matched({ MatchWord(t, k, w) : w \in ws }) : AtWordBoundary(t, e) }

\* The three characters that line 41 holds in place of an ellipsis
\* (a-circumflex, euro sign, broken bar); no text of the model holds them
Mojibake == << "U+00E2", "U+20AC", "U+00A6" >>

\* (\.\.\.|MOJIBAKE)+ from offset p (greedy): the offset after it
RECURSIVE SkipEllipses(_, _)
SkipEllipses(t, p) ==
    IF OccursAt(t, << ".",".","." >>, p) \/ OccursAt(t, Mojibake, p)
    THEN SkipEllipses(t, p + 3) ELSE p

\* PLACEHOLDER_PATTERNS[n] matches at offset k (lines 36-41).  Where a
\* repetition is followed by a character it cannot match, it runs to its end.
PatternAt(n, t, k) ==
    CASE n = 1 ->  \* (?mi)^(\s*//\s*)?(TODO|FIXME|TBD)\b
           LET ws == { << "T","O","D","O" >>, << "F","I","X","M","E" >>, << "T","B","D" >> }
               a  == SkipSpaces(t, k)
           IN  /\ AtLineStart(t, k)
               /\ \/ WordEnds(t, k, ws) # {}
                  \/ /\ OccursAt(t, << "/","/" >>, a)
                     /\ WordEnds(t, SkipSpaces(t, a + 2), ws) # {}
      [] n = 2 ->  \* NotImplemented(Exception)?\b
           LET e == k + 14
           IN  /\ OccursAt(t, << "N","o","t","I","m","p","l","e","m","e","n","t","e","d" >>, k)
               /\ \/ AtWordBoundary(t, e)
                  \/ /\ OccursAt(t, << "E","x","c","e","p","t","i","o","n" >>, e)
                     /\ AtWordBoundary(t, e + 9)
      [] n = 3 ->  \* (?i)\bREPLACE_ME\b
           /\ AtWordBoundary(t, k)
           /\ WordEnds(t, k, { << "R","E","P","L","A","C","E","_","M","E" >> }) # {}
      [] n = 4 ->  \* (?i)<YOUR_[A-Z0-9_]+>
           LET a == MatchWord(t, k, << "<","Y","O","U","R","_" >>)
               b == CHOOSE q \in a..Len(t) :
                        /\ \A h \in (a + 1)..q : IsWord(t[h])
                        /\ q = Len(t) \/ ~IsWord(t[q + 1])
           IN  a # -1 /\ b > a /\ OccursAt(t, << ">" >>, b)
      [] n = 5 ->  \* (?i)\b(example\.com|foo\.bar|lorem ipsum)\b
           /\ AtWordBoundary(t, k)
           /\ WordEnds(t, k, { << "e","x","a","m","p","l","e",".","c","o","m" >>,
                               << "f","o","o",".","b","a","r" >>,
                               << "l","o","r","e","m"," ","i","p","s","u","m" >> }) # {}
      [] n = 6 ->  \* (?m)^\s*(\.\.\.|MOJIBAKE)+\s*$
           LET a == SkipSpaces(t, k)
               u == SkipEllipses(t, a)
           IN  /\ AtLineStart(t, k)
               /\ u > a
               /\ \E c \in u..SkipSpaces(t, u) : c = Len(t) \/ t[c + 1] = "\n"

\* lines 35-42: severity and code of each pattern, in list order
PLACEHOLDER_PATTERNS ==
    << << "error", "placeholder.todo" >>,
       << "error", "placeholder.not_implemented" >>,
       << "warn", "placeholder.replace_me" >>,
       << "warn", "placeholder.your_value" >>,
       << "warn", "placeholder.example" >>,
       << "warn", "artifact.ellipsis" >> >>

\* re.search(pattern, stripped) of line 118
PatternFound(n, t) == \E k \in 0..Len(t) : PatternAt(n, t, k)

\* Offset of the closing quote of _INCLUDE_RE matched at offset k (line 44:
\* (?i)\b(require_once|require|include_once|include)\s*\(?\s*['\"]([^'\"]+)['\"]),
\* -1 when it does not match there
IncludeAt(t, k) ==
    LET IsQuote(c) == c \in { "'", "\"" }
        kw == Matched({ MatchWord(t, k, w) :
                  w \in { << "r","e","q","u","i","r","e","_","o","n","c","e" >>,
                          << "r","e","q","u","i","r","e" >>,
                          << "i","n","c","l","u","d","e","_","o","n","c","e" >>,
                          << "i","n","c","l","u","d","e" >> } })
        \* \s*\(?\s* from offset q: the offset of the opening quote
        open(q) == LET a == SkipSpaces(t, q)
                   IN  SkipSpaces(t, IF OccursAt(t, << "(" >>, a) THEN a + 1 ELSE a)
        ends == { d \in 0..(Len(t) - 1) :
                    \E q \in kw :
                       /\ open(q) < Len(t) /\ IsQuote(t[open(q) + 1])
                       /\ d > open(q) + 1
                       /\ IsQuote(t[d + 1])
                       /\ \A h \in (open(q) + 2)..d : ~IsQuote(t[h]) }
    IN  IF AtWordBoundary(t, k) /\ ends # {} THEN Least(ends) ELSE -1

\* group 2 of the match at offset k that ends with the quote at offset d
IncludePath(t, k, d) ==
    LET opening == CHOOSE q \in k..d :
                      t[q + 1] \in { "'", "\"" } /\ \A h \in (q + 2)..d : t[h] \notin { "'", "\"" }
    IN  Slice(t, opening + 1, d)

\* lines 123-137 for one raw_path: the findings it adds
PathFindings(raw, existing) ==
    LET raw_path == Strip(raw)
    IN  IF \/ raw_path = << >>
           \/ StartsWith(raw_path, << "h","t","t","p",":","/","/" >>)
           \/ StartsWith(raw_path, << "h","t","t","p","s",":","/","/" >>)
           \/ \E k \in 1..Len(raw_path) : raw_path[k] \in { "$", "{", "}" }
           \/ raw_path \in existing
        THEN << >>
        ELSE << Finding("warn", "path.missing", raw_path) >>

\* A loop over the include statements that stops after the first statement
\* (a break at the end of the loop body)
IncludeFindingsFirstOnly(t, p, existing) ==
    LET at == { k \in p..Len(t) : IncludeAt(t, k) # -1 }
    IN  IF at = {} THEN << >>
        ELSE PathFindings(IncludePath(t, Least(at), IncludeAt(t, Least(at))), existing)

\* lines 122-137: the loop over _INCLUDE_RE.findall(stripped), from offset p
RECURSIVE IncludeFindings(_, _, _)
IncludeFindings(t, p, existing) ==
    LET at == { k \in p..Len(t) : IncludeAt(t, k) # -1 }
    IN  IF at = {} THEN << >>
        ELSE PathFindings(IncludePath(t, Least(at), IncludeAt(t, Least(at))), existing)
                \o IncludeFindings(t, IncludeAt(t, Least(at)) + 1, existing)

\* A loop over _PLACEHOLDER_PATTERNS that reports every match of a pattern
\* (finditer in place of search)
RECURSIVE PatternFindingsPerMatch(_, _)
PatternFindingsPerMatch(t, n) ==
    IF n > Len(PLACEHOLDER_PATTERNS) THEN << >>
    ELSE [ j \in 1..Cardinality({ k \in 0..Len(t) : PatternAt(n, t, k) }) |->
              Finding(PLACEHOLDER_PATTERNS[n][1], PLACEHOLDER_PATTERNS[n][2], << >>) ]
            \o PatternFindingsPerMatch(t, n + 1)

\* lines 117-119: the loop over _PLACEHOLDER_PATTERNS, from entry n
RECURSIVE PatternFindings(_, _)
PatternFindings(t, n) ==
    IF n > Len(PLACEHOLDER_PATTERNS) THEN << >>
    ELSE (IF PatternFound(n, t)
          THEN << Finding(PLACEHOLDER_PATTERNS[n][1], PLACEHOLDER_PATTERNS[n][2], << >>) >>
          ELSE << >>) \o PatternFindings(t, n + 1)

\* lines 103-139
validate_text(t, existing) ==
    (IF Find(t, Fence) # -1
     THEN << Finding("warn", "artifact.markdown_fence", << >>) >> ELSE << >>)
        \o PatternFindings(t, 1)
        \o IncludeFindings(t, 0, existing)

\* re.search(r"(?m)^LITERAL", t)
LineStartsWith(t, literal) ==
    \E k \in 0..Len(t) : AtLineStart(t, k) /\ OccursAt(t, literal, k)

HunkMark == << "@","@"," " >>
DiffGitMark == << "d","i","f","f"," ","-","-","g","i","t"," " >>
OldFileMark == << "-","-","-"," " >>
NewFileMark == << "+","+","+"," " >>

\* lines 142-152
looks_like_unified_diff(t, suffix) ==
    \/ suffix \in { ".patch", ".diff" }
    \/ LineStartsWith(t, DiffGitMark)
    \/ LineStartsWith(t, OldFileMark) /\ LineStartsWith(t, NewFileMark)
    \/ LineStartsWith(t, HunkMark)

\* A loop over the lines that lets an empty line inside a hunk pass (it
\* lacks the test of line 187)
RECURSIVE HunkLineFindingsBlankOk(_, _, _)
HunkLineFindingsBlankOk(lines, n, in_hunk) ==
    IF n > Len(lines) THEN << >>
    ELSE LET line == lines[n]
         IN  IF StartsWith(line, << "@","@" >>) THEN HunkLineFindingsBlankOk(lines, n + 1, TRUE)
             ELSE IF ~in_hunk THEN HunkLineFindingsBlankOk(lines, n + 1, FALSE)
             ELSE IF \/ StartsWith(line, DiffGitMark)
                     \/ StartsWith(line, OldFileMark)
                     \/ StartsWith(line, NewFileMark)
                  THEN HunkLineFindingsBlankOk(lines, n + 1, FALSE)
             ELSE IF line # << >> /\ line[1] \notin { " ", "+", "-", "\\" }
                  THEN << Finding("error", "patch.invalid_hunk_line", Slice(line, 0, 20)) >>
             ELSE HunkLineFindingsBlankOk(lines, n + 1, TRUE)

\* lines 177-204: the loop over the lines, from line n with in_hunk as given
RECURSIVE HunkLineFindings(_, _, _)
HunkLineFindings(lines, n, in_hunk) ==
    IF n > Len(lines) THEN << >>
    ELSE LET line == lines[n]
         IN  IF StartsWith(line, << "@","@" >>) THEN HunkLineFindings(lines, n + 1, TRUE)
             ELSE IF ~in_hunk THEN HunkLineFindings(lines, n + 1, FALSE)
             ELSE IF \/ StartsWith(line, DiffGitMark)
                     \/ StartsWith(line, OldFileMark)
                     \/ StartsWith(line, NewFileMark)
                  THEN HunkLineFindings(lines, n + 1, FALSE)
             ELSE IF line = << >> \/ line[1] \notin { " ", "+", "-", "\\" }
                  THEN << Finding("error", "patch.invalid_hunk_line", Slice(line, 0, 20)) >>
             ELSE HunkLineFindings(lines, n + 1, TRUE)

\* lines 155-215
validate_unified_diff(t) ==
    (IF /\ LineStartsWith(t, HunkMark)
        /\ ~LineStartsWith(t, DiffGitMark)
        /\ ~(LineStartsWith(t, OldFileMark) /\ LineStartsWith(t, NewFileMark))
     THEN << Finding("error", "patch.missing_headers", << >>) >> ELSE << >>)
        \o HunkLineFindings(SplitLines(t), 1, FALSE)
        \o (IF Strip(t) # << >> /\ t[Len(t)] # "\n"
            THEN << Finding("warn", "artifact.missing_trailing_newline", << >>) >>
            ELSE << >>)

\* lines 91-100
looks_like_php(t, suffix) ==
    \/ suffix = ".php"
    \/ OccursAt(t, << "<","?","p","h","p" >>, SkipSpaces(t, 0))
    \/ /\ \E k \in 0..Len(t) :
             /\ AtLineStart(t, k)
             /\ OccursAt(t, << "$" >>, SkipSpaces(t, k))
             /\ SkipSpaces(t, k) + 1 < Len(t)
             /\ LET c == t[SkipSpaces(t, k) + 2] IN IsWord(c) /\ ~IsDigit(c)
       /\ \E k \in 0..Len(t) :
             /\ AtWordBoundary(t, k)
             /\ \E e \in { k + 8, k + 5 } :
                   /\ OccursAt(t, IF e = k + 8 THEN KwFunction ELSE << "c","l","a","s","s" >>, k)
                   /\ AtWordBoundary(t, e)

----------------------------------------------------------------------------
(* validate_generated_output.main: validate_file, then the exit code       *)

\* lines 384-387: the input is no file
InputMissing ==
    /\ validate_pc = "start"
    /\ artifact = NoText
    /\ exit_code' = 2
    /\ validate_pc' = "done"
    /\ UNCHANGED << artifact, input_suffix, no_php_lint, run_log, existing_paths,
                    findings, tmp_path, scratch_files, proc, counts, run_record >>

\* line 279
CheckText ==
    /\ validate_pc = "start"
    /\ artifact # NoText
    /\ findings' = validate_text(artifact, existing_paths)
    /\ validate_pc' = "diff"
    /\ UNCHANGED << artifact, input_suffix, no_php_lint, run_log, existing_paths,
                    tmp_path, scratch_files, proc, counts, run_record, exit_code >>

\* lines 281-282
CheckDiff ==
    /\ validate_pc = "diff"
    /\ findings' = findings \o (IF looks_like_unified_diff(artifact, input_suffix)
                                THEN validate_unified_diff(artifact) ELSE << >>)
    /\ validate_pc' = "lint"
    /\ UNCHANGED << artifact, input_suffix, no_php_lint, run_log, existing_paths,
                    tmp_path, scratch_files, proc, counts, run_record, exit_code >>

\* lines 219-222: run_php_lint_if_applicable returns None at once
LintSkipped ==
    /\ validate_pc = "lint"
    /\ no_php_lint \/ ~looks_like_php(artifact, input_suffix)
    /\ validate_pc' = "report"
    /\ UNCHANGED << artifact, input_suffix, no_php_lint, run_log, existing_paths,
                    findings, tmp_path, scratch_files, proc, counts, run_record,
                    exit_code >>

\* lines 224-226
lint_text ==
    IF OccursAt(artifact, << "<","?","p","h","p" >>, SkipSpaces(artifact, 0))
    THEN artifact
    ELSE << "<","?","p","h","p","\n" >> \o artifact

\* The name tempfile.NamedTemporaryFile gives the scratch file
ScratchName == "tmp.php"

\* line 230: NamedTemporaryFile(delete=False) creates the scratch file
CreateScratch ==
    /\ validate_pc = "lint"
    /\ ~(no_php_lint \/ ~looks_like_php(artifact, input_suffix))
    /\ scratch_files' = scratch_files \cup { [name |-> ScratchName, content |-> << >>] }
    /\ validate_pc' = "write"
    /\ UNCHANGED << artifact, input_suffix, no_php_lint, run_log, existing_paths,
                    findings, tmp_path, proc, counts, run_record, exit_code >>

\* lines 231-232: handle.write succeeds and tmp_path is set; the file is
\* closed on leaving the with block
WriteScratch ==
    /\ validate_pc = "write"
    /\ scratch_files' = { IF f.name = ScratchName THEN [f EXCEPT !.content = lint_text] ELSE f :
                             f \in scratch_files }
    /\ tmp_path' = ScratchName
    /\ validate_pc' = "run"
    /\ UNCHANGED << artifact, input_suffix, no_php_lint, run_log, existing_paths,
                    findings, proc, counts, run_record, exit_code >>

\* line 231: handle.write raises (an OSError such as a full disk, or a
\* UnicodeEncodeError); line 232 is not reached and tmp_path stays None
WriteFails ==
    /\ validate_pc = "write"
    /\ proc' = [NoProc EXCEPT !.kind = "OSError"]
    /\ validate_pc' = "finally"
    /\ UNCHANGED << artifact, input_suffix, no_php_lint, run_log, existing_paths,
                    findings, tmp_path, scratch_files, counts, run_record, exit_code >>

\* The ways subprocess.run of lines 234-239 ends: php exits with a return
\* code and some output, is not on PATH, runs for more than 30 seconds, or
\* cannot be started for another reason
LintOutcomes ==
    { [kind |-> "exit", returncode |-> rc, output |-> out] :
          rc \in { 0, 255 }, out \in { << >>, << " ","E","\n" >> } }
       \cup { [NoProc EXCEPT !.kind = k] :
                 k \in { "FileNotFoundError", "TimeoutExpired", "PermissionError" } }

\* lines 234-239
RunLint ==
    /\ validate_pc = "run"
    /\ proc' \in LintOutcomes
    /\ validate_pc' = "finally"
    /\ UNCHANGED << artifact, input_suffix, no_php_lint, run_log, existing_paths,
                    findings, tmp_path, scratch_files, counts, run_record, exit_code >>

\* lines 252-257: the finally clause; os.remove is called when tmp_path is
\* set, and an OSError it raises is passed over (the file is then still there)
Cleanup ==
    /\ validate_pc = "finally"
    /\ \/ tmp_path # None /\ scratch_files' = { f \in scratch_files : f.name # tmp_path }
       \/ tmp_path # None /\ scratch_files' = scratch_files
       \/ tmp_path = None /\ scratch_files' = scratch_files
    /\ validate_pc' = "linted"
    /\ UNCHANGED << artifact, input_suffix, no_php_lint, run_log, existing_paths,
                    findings, tmp_path, proc, counts, run_record, exit_code >>

\* A mapping of the lint outcomes that treats a timeout as a failed lint
LintFindingTimeoutFatal(p) ==
    LET message(default) == IF Strip(p.output) = << >> THEN default ELSE Strip(p.output)
    IN  CASE p.kind = "FileNotFoundError" -> Finding("warn", "php.missing", << >>)
          [] p.kind = "TimeoutExpired" -> Finding("error", "php.lint_failed", << >>)
          [] p.kind = "exit" /\ p.returncode # 0 ->
                Finding("error", "php.lint_failed",
                        message(<< "p","h","p"," ","-","l"," ","f","a","i","l","e","d" >>))
          [] p.kind = "exit" /\ p.returncode = 0 ->
                Finding("info", "php.lint_ok", message(<< "p","h","p"," ","-","l"," ","O","K" >>))

\* lines 240-251 and 259-263: the Finding run_php_lint_if_applicable returns
LintFinding(p) ==
    LET message(default) == IF Strip(p.output) = << >> THEN default ELSE Strip(p.output)
    IN  CASE p.kind = "FileNotFoundError" -> Finding("warn", "php.missing", << >>)
          [] p.kind = "TimeoutExpired" -> Finding("warn", "php.lint_timeout", << >>)
          [] p.kind = "exit" /\ p.returncode # 0 ->
                Finding("error", "php.lint_failed",
                        message(<< "p","h","p"," ","-","l"," ","f","a","i","l","e","d" >>))
          [] p.kind = "exit" /\ p.returncode = 0 ->
                Finding("info", "php.lint_ok", message(<< "p","h","p"," ","-","l"," ","O","K" >>))

\* lines 284-286: the lint finding is appended
LintReturns ==
    /\ validate_pc = "linted"
    /\ proc.kind \notin { "OSError", "PermissionError" }
    /\ findings' = Append(findings, LintFinding(proc))
    /\ validate_pc' = "report"
    /\ UNCHANGED << artifact, input_suffix, no_php_lint, run_log, existing_paths,
                    tmp_path, scratch_files, proc, counts, run_record, exit_code >>

\* An exception that lines 240-251 do not catch leaves validate_file and main
LintRaises ==
    /\ validate_pc = "linted"
    /\ proc.kind \in { "OSError", "PermissionError" }
    /\ exit_code' = 1
    /\ validate_pc' = "done"
    /\ UNCHANGED << artifact, input_suffix, no_php_lint, run_log, existing_paths,
                    findings, tmp_path, scratch_files, proc, counts, run_record >>

\* len([f for f in findings if f.severity == severity])
CountSeverity(fl, severity) ==
    Len(SelectSeq(fl, LAMBDA f : f.severity = severity))

\* lines 288-296
Counts(fl) ==
    [error |-> CountSeverity(fl, "error"),
     warn  |-> CountSeverity(fl, "warn"),
     info  |-> CountSeverity(fl, "info")]

\* lines 397, 414-419
\* An exit code that fails the run on warnings as well as on errors
ExitCodeOnWarnings(fl) ==
    IF CountSeverity(fl, "error") + CountSeverity(fl, "warn") > 0 THEN 2 ELSE 0

ExitCode(fl) == IF CountSeverity(fl, "error") > 0 THEN 2 ELSE 0

\* lines 288-299 of validate_file, then lines 397-419 of main: the report,
\* the run-log record when a run log is named, and the exit code
Report ==
    /\ validate_pc = "report"
    /\ counts' = Counts(findings)
    /\ run_record' =
          IF run_log
          THEN Append(run_record,
                      [passed |-> counts'.error = 0, counts |-> counts',
                       finding_codes |-> [k \in 1..Len(findings) |-> findings[k].code]])
          ELSE run_record
    /\ exit_code' = ExitCode(findings)
    /\ validate_pc' = "done"
    /\ UNCHANGED << artifact, input_suffix, no_php_lint, run_log, existing_paths,
                    findings, tmp_path, scratch_files, proc >>

(* Artifacts: texts of up to MaxArtifactLines lines that hold placeholders *)
(* and fences, texts that hold include statements, under each set of       *)
(* existing paths, and the texts of the repair pass as patches.            *)

MaxArtifactLines == 2

\* Lines that the placeholder patterns and the fence test match, once or
\* twice, and lines they do not match
PlaceholderMenu ==
    { << "T","O","D","O" >>,
      << " ","/","/"," ","f","i","x","m","e",":" >>,
      << "N","o","t","I","m","p","l","e","m","e","n","t","e","d","E","x","c","e","p","t","i","o","n" >>,
      << "r","e","p","l","a","c","e","_","m","e"," ","<","Y","O","U","R","_","K","E","Y",">" >>,
      Fence \o << " ","R","E","P","L","A","C","E","_","M","E"," ","<","y","o","u","r","_","1",">" >>,
      << "f","o","o",".","b","a","r" >>,
      << ".",".","." >>,
      Fence \o << "p","h","p" >>,
      << "x","T","O","D","O","s" >>,
      << >> }

\* Include statements with a static, a padded, a remote and a dynamic path,
\* one that names a path the example pattern matches, and lines that are
\* no include statement
IncludeMenu ==
    { << "i","n","c","l","u","d","e"," ","'","a","'",";" >>,
      << "R","e","q","u","i","r","e","_","o","n","c","e","("," ","\"","b"," ","\"",")",";" >>,
      << "i","n","c","l","u","d","e"," ","'","h","t","t","p",":","/","/","x","'",";" >>,
      << "r","e","q","u","i","r","e"," ","\"","$","a","\"",";" >>,
      << "i","n","c","l","u","d","e","_","o","n","c","e"," ","'","f","o","o",".","b","a","r","'",";" >>,
      << "x","i","n","c","l","u","d","e"," ","'","a","'" >>,
      << "T","O","D","O" >> }

\* Lines of a unified diff: hunk headers, the four kinds of hunk line, an
\* invalid and an empty line, and the three headers that end a hunk
HunkMenu ==
    { << "@","@"," ","-","1"," ","+","1"," ","@","@" >>,
      << "@","@","x" >>,
      << " ","a" >>,
      << "-","b" >>,
      << "+","c" >>,
      << "\\"," ","N" >>,
      << "x" >>,
      << >>,
      << "-","-","-"," ","a" >>,
      << "+","+","+"," ","b" >>,
      << "d","i","f","f"," ","-","-","g","i","t"," ","a"," ","b" >> }

\* Longer artifacts: every placeholder pattern and the fence, some twice; a
\* complete diff with an empty line between the lines of its hunk; a hunk
\* ended by a file header before an invalid line; two hunks, the second
\* with the invalid line
ExampleArtifacts ==
    { JoinLines(<< Fence \o << "p","h","p" >>,
                   << "T","O","D","O" >>,
                   << "N","o","t","I","m","p","l","e","m","e","n","t","e","d" >>,
                   << "r","e","p","l","a","c","e","_","m","e"," ","<","Y","O","U","R","_","K","E","Y",">" >>,
                   << "f","o","o",".","b","a","r" >>,
                   << ".",".","." >>,
                   << "T","B","D" >>,
                   << "f","o","o",".","b","a","r" >>,
                   Fence >>),
      JoinLines(<< << "-","-","-"," ","a" >>,
                   << "+","+","+"," ","b" >>,
                   << "@","@"," ","-","1"," ","+","1"," ","@","@" >>,
                   << " ","a" >>,
                   << >>,
                   << "+","c" >> >>),
      JoinLines(<< << "@","@"," ","-","1"," ","+","1"," ","@","@" >>,
                   << "+","c" >>,
                   << "-","-","-"," ","a" >>,
                   << "x" >> >>),
      JoinLines(<< << "d","i","f","f"," ","-","-","g","i","t"," ","a"," ","b" >>,
                   << "@","@"," ","-","1"," ","+","1"," ","@","@" >>,
                   << " ","a" >>,
                   << "@","@"," ","-","3"," ","+","3"," ","@","@" >>,
                   << "x" >>,
                   << "y" >> >>) }

\* << artifact, input_suffix, existing_paths >>
ArtifactInputs ==
    { << JoinLines(ls), ".txt", {} >> : ls \in StringsOver(PlaceholderMenu, MaxArtifactLines) }
       \cup { << JoinLines(ls), ".txt", ex >> :
                 ls \in StringsOver(IncludeMenu, MaxArtifactLines),
                 ex \in SUBSET { << "a" >>, << "b" >> } }
       \cup { << JoinLines(ls), sfx, {} >> :
                 ls \in StringsOver(HunkMenu, MaxArtifactLines), sfx \in { ".patch", ".txt" } }
       \cup { << t, ".txt", {} >> : t \in ExampleArtifacts }

InitFindings ==
    /\ AgentIdle
    /\ SpanIdle
    /\ DiffIdle
    /\ BundleIdle
    /\ SnippetIdle
    /\ \E inp \in ArtifactInputs :
          /\ artifact = inp[1]
          /\ input_suffix = inp[2]
          /\ existing_paths = inp[3]
    /\ no_php_lint = TRUE
    /\ run_log = FALSE
    /\ findings = << >>
    /\ validate_pc = "start"
    /\ tmp_path = None
    /\ scratch_files = {}
    /\ proc = NoProc
    /\ counts = NoCounts
    /\ run_record = << >>
    /\ exit_code = -1

\* validate_text, then validate_unified_diff, applied to one artifact
NextFindings ==
    \/ CheckText /\ UNCHANGED << spanVars, diffVars, bundleVars, snippetVars, agentVars >>
    \/ CheckDiff /\ UNCHANGED << spanVars, diffVars, bundleVars, snippetVars, agentVars >>

SpecFindings == InitFindings /\ [][NextFindings]_vars

\* The input files of the runs of main: PHP with and without its header,
\* with and without findings, a patch, plain text, and one that is missing
SampleArtifacts ==
    { << "<","?","p","h","p","\n","$","a"," ","="," ","1",";","\n" >>,
      << "$","a"," ","="," ","1",";","\n","c","l","a","s","s"," ","A","\n" >>,
      << "T","O","D","O","\n" >>,
      << "r","e","p","l","a","c","e","_","m","e","\n","T","O","D","O","\n","T","B","D" >>,
      << "@","@"," ","-","1"," ","+","1"," ","@","@","\n","\n" >>,
      << "f","o","o",".","b","a","r","\n" >>,
      << "x","\n" >>,
      NoText }

InitValidate ==
    /\ AgentIdle
    /\ SpanIdle
    /\ DiffIdle
    /\ BundleIdle
    /\ SnippetIdle
    /\ artifact \in SampleArtifacts
    /\ input_suffix \in { ".php", ".txt" }
    /\ existing_paths = {}
    /\ no_php_lint \in BOOLEAN
    /\ run_log \in BOOLEAN
    /\ findings = << >>
    /\ validate_pc = "start"
    /\ tmp_path = None
    /\ scratch_files = {}
    /\ proc = NoProc
    /\ counts = NoCounts
    /\ run_record = << >>
    /\ exit_code = -1

NextValidate ==
    \/ InputMissing /\ UNCHANGED << spanVars, diffVars, bundleVars, snippetVars, agentVars >>
    \/ CheckText /\ UNCHANGED << spanVars, diffVars, bundleVars, snippetVars, agentVars >>
    \/ CheckDiff /\ UNCHANGED << spanVars, diffVars, bundleVars, snippetVars, agentVars >>
    \/ LintSkipped /\ UNCHANGED << spanVars, diffVars, bundleVars, snippetVars, agentVars >>
    \/ CreateScratch /\ UNCHANGED << spanVars, diffVars, bundleVars, snippetVars, agentVars >>
    \/ WriteScratch /\ UNCHANGED << spanVars, diffVars, bundleVars, snippetVars, agentVars >>
    \/ WriteFails /\ UNCHANGED << spanVars, diffVars, bundleVars, snippetVars, agentVars >>
    \/ RunLint /\ UNCHANGED << spanVars, diffVars, bundleVars, snippetVars, agentVars >>
    \/ Cleanup /\ UNCHANGED << spanVars, diffVars, bundleVars, snippetVars, agentVars >>
    \/ LintReturns /\ UNCHANGED << spanVars, diffVars, bundleVars, snippetVars, agentVars >>
    \/ LintRaises /\ UNCHANGED << spanVars, diffVars, bundleVars, snippetVars, agentVars >>
    \/ Report /\ UNCHANGED << spanVars, diffVars, bundleVars, snippetVars, agentVars >>

SpecValidate == InitValidate /\ [][NextValidate]_vars

\* ---------------------------------------------------------------------------
\* Claims about the output validator (src/python/validate_generated_output.py)
\* ---------------------------------------------------------------------------

\* The indices of the findings of one severity
WithSeverity(severity) == { k \in DOMAIN findings : findings[k].severity = severity }

\* The indices of the findings of one code
WithCode(code) == { k \in DOMAIN findings : findings[k].code = code }

\* C12: a validation run that reached its report exits with code 2 exactly
\* when at least one finding has severity error and with code 0 otherwise;
\* the record appended to the run log has passed = false in exactly the same
\* case; and the reported counts are the numbers of findings of each severity,
\* every finding being of one of the three severities.
C12_FailsIffErrorFinding ==
    (validate_pc = "done" /\ counts # NoCounts) =>
        /\ exit_code = (IF WithSeverity("error") # {} THEN 2 ELSE 0)
        /\ Len(run_record) = (IF run_log THEN 1 ELSE 0)
        /\ \A j \in DOMAIN run_record :
              /\ run_record[j].passed = (WithSeverity("error") = {})
              /\ run_record[j].counts = counts
        /\ counts.error = Cardinality(WithSeverity("error"))
        /\ counts.warn = Cardinality(WithSeverity("warn"))
        /\ counts.info = Cardinality(WithSeverity("info"))
        /\ counts.error + counts.warn + counts.info = Len(findings)

\* A logged run with warnings and an info finding but no error: it passes
C12_Witness ==
    /\ validate_pc = "done"
    /\ counts # NoCounts
    /\ run_log
    /\ WithSeverity("warn") # {}
    /\ WithSeverity("info") # {}
    /\ WithSeverity("error") = {}
    /\ exit_code = 0
    /\ Len(run_record) = 1 /\ run_record[1].passed

\* The place of a code in _PLACEHOLDER_PATTERNS, 0 for any other code
PatternIndex(code) ==
    LET at == { n \in DOMAIN PLACEHOLDER_PATTERNS : PLACEHOLDER_PATTERNS[n][2] = code }
    IN  IF at = {} THEN 0 ELSE Least(at)

\* C13: once the text checks have run, each placeholder pattern has
\* contributed at most one finding however often it matches (exactly one when
\* it matches somewhere, with the severity of its entry), the placeholder
\* findings stand in the order of the pattern list, and the markdown-fence
\* finding, when there is one, precedes them all.
C13_OneFindingPerPattern ==
    validate_pc # "start" =>
        /\ \A n \in DOMAIN PLACEHOLDER_PATTERNS :
              /\ Cardinality(WithCode(PLACEHOLDER_PATTERNS[n][2]))
                    = (IF \E k \in 0..Len(artifact) : PatternAt(n, artifact, k) THEN 1 ELSE 0)
              /\ \A k \in WithCode(PLACEHOLDER_PATTERNS[n][2]) :
                    findings[k].severity = PLACEHOLDER_PATTERNS[n][1]
        /\ \A j, k \in DOMAIN findings :
              (j < k /\ PatternIndex(findings[j].code) > 0 /\ PatternIndex(findings[k].code) > 0)
                  => PatternIndex(findings[j].code) < PatternIndex(findings[k].code)
        /\ \A k \in WithCode("artifact.markdown_fence") : k = 1

\* A fenced text in which two patterns match twice each
C13_Witness ==
    /\ validate_pc = "diff"
    /\ WithCode("artifact.markdown_fence") = { 1 }
    /\ \E e1, e2 \in DOMAIN PLACEHOLDER_PATTERNS :
          /\ e1 < e2
          /\ Cardinality({ k \in 0..Len(artifact) : PatternAt(e1, artifact, k) }) > 1
          /\ Cardinality({ k \in 0..Len(artifact) : PatternAt(e2, artifact, k) }) > 1
          /\ WithCode(PLACEHOLDER_PATTERNS[e1][2]) = { 2 }
          /\ WithCode(PLACEHOLDER_PATTERNS[e2][2]) = { 3 }

\* str.count: the number of non-overlapping occurrences of the needle in t
\* from offset p on
RECURSIVE Occurrences(_, _, _)
Occurrences(t, needle, p) ==
    LET at == { k \in p..Len(t) : OccursAt(t, needle, k) }
    IN  IF at = {} THEN 0 ELSE 1 + Occurrences(t, needle, Least(at) + Len(needle))

\* C14 as stated: every check repeats its finding once per occurrence of
\* what triggers it. It is written out for the fence check and for the
\* placeholder patterns 2 to 5, whose matches cannot overlap, so that the
\* places where they match are their occurrences: the fence code occurs as
\* often as the fence and each of these codes as often as its pattern matches.
C14_EveryCheckRepeats ==
    validate_pc # "start" =>
        /\ Cardinality(WithCode("artifact.markdown_fence")) = Occurrences(artifact, Fence, 0)
        /\ \A n \in 2..5 :
              Cardinality(WithCode(PLACEHOLDER_PATTERNS[n][2]))
                 = Cardinality({ k \in 0..Len(artifact) : PatternAt(n, artifact, k) })

\* The paths named by the include statements of t from offset p on, one per
\* statement, in text order (statements do not overlap)
RECURSIVE IncludeStatements(_, _)
IncludeStatements(t, p) ==
    LET at == { k \in p..Len(t) : IncludeAt(t, k) # -1 }
    IN  IF at = {} THEN << >>
        ELSE << Strip(IncludePath(t, Least(at), IncludeAt(t, Least(at)))) >>
                \o IncludeStatements(t, IncludeAt(t, Least(at)) + 1)

\* A path the validator looks up: not empty, not a URL, no $ or braces
IsStaticPath(path) ==
    /\ path # << >>
    /\ ~StartsWith(path, << "h","t","t","p",":","/","/" >>)
    /\ ~StartsWith(path, << "h","t","t","p","s",":","/","/" >>)
    /\ \A k \in DOMAIN path : path[k] \notin { "$", "{", "}" }

\* C14 (amended): only the include check repeats. The path.missing
\* findings are, in order, one for each include statement whose path is
\* static and does not exist, however often the same path is named; every
\* other code occurs at most once in the list of findings.
C14_OnlyMissingPathsRepeat ==
    validate_pc # "start" =>
        LET IsMissing(path) == IsStaticPath(path) /\ path \notin existing_paths
            IsPathFinding(f) == f.code = "path.missing"
            reported == SelectSeq(findings, IsPathFinding)
            missing == SelectSeq(IncludeStatements(artifact, 0), IsMissing)
        IN  /\ Len(reported) = Len(missing)
            /\ \A j \in DOMAIN reported :
                  reported[j].message = missing[j] /\ reported[j].severity = "warn"
            /\ \A j, k \in DOMAIN findings :
                  (j # k /\ findings[j].code = findings[k].code)
                      => findings[j].code = "path.missing"

\* Two include statements name the same missing path, which a placeholder
\* pattern matches as well: two path findings, one placeholder finding
C14_Witness ==
    /\ validate_pc = "diff"
    /\ \E j, k \in WithCode("path.missing") :
          j < k /\ findings[j].message = findings[k].message
    /\ \E n \in DOMAIN PLACEHOLDER_PATTERNS :
          /\ Cardinality({ k \in 0..Len(artifact) : PatternAt(n, artifact, k) }) > 1
          /\ Cardinality(WithCode(PLACEHOLDER_PATTERNS[n][2])) = 1

\* A hunk header, as the validator recognises it
IsHunkMark(line) == StartsWith(line, << "@","@" >>)

\* A file or diff header
IsFileMark(line) ==
    \/ StartsWith(line, << "d","i","f","f"," ","-","-","g","i","t"," " >>)
    \/ StartsWith(line, << "-","-","-"," " >>)
    \/ StartsWith(line, << "+","+","+"," " >>)

\* Line n lies inside a hunk region: it is no header, a hunk header precedes
\* it, and no file or diff header stands between that header and the line
InHunkRegion(lines, n) ==
    /\ ~IsHunkMark(lines[n]) /\ ~IsFileMark(lines[n])
    /\ \E h \in 1..(n - 1) :
          /\ IsHunkMark(lines[h])
          /\ \A j \in (h + 1)..(n - 1) : ~IsFileMark(lines[j])

\* C15: for a text that looks like a unified diff, once the diff checks have
\* run, the findings hold a patch.invalid_hunk_line finding exactly when some
\* line inside a hunk region is empty or begins with none of ' ', '+', '-',
\* backslash; and every such finding has severity error.
C15_InvalidHunkLineReported ==
    (validate_pc = "lint" /\ looks_like_unified_diff(artifact, input_suffix)) =>
        LET lines == SplitLines(artifact)
            bad == { n \in DOMAIN lines :
                       /\ InHunkRegion(lines, n)
                       /\ \/ lines[n] = << >>
                          \/ lines[n][1] \notin { " ", "+", "-", "\\" } }
        IN  /\ (bad # {}) = (WithCode("patch.invalid_hunk_line") # {})
            /\ \A k \in WithCode("patch.invalid_hunk_line") : findings[k].severity = "error"

\* A diff by content whose only fault is an empty line inside a hunk
C15_Witness ==
    /\ validate_pc = "lint"
    /\ input_suffix = ".txt"
    /\ looks_like_unified_diff(artifact, input_suffix)
    /\ WithCode("patch.invalid_hunk_line") # {}
    /\ LET lines == SplitLines(artifact)
       IN  /\ \E n \in DOMAIN lines : InHunkRegion(lines, n) /\ lines[n] = << >>
           /\ \A n \in DOMAIN lines :
                 (InHunkRegion(lines, n) /\ lines[n] # << >>)
                     => lines[n][1] \in { " ", "+", "-", "\\" }

\* The lint step has ended, by a return or by an exception
LintEnded == validate_pc \in { "linted", "report", "done" }

\* C16 as stated: once the lint step has ended, by whatever exit path, the
\* scratch file it created is gone. A removal that the operating system
\* refuses is left aside (os.remove was then called with tmp_path): the
\* statement is that no scratch file is left without a removal being tried.
C16_ScratchFileRemoved ==
    (LintEnded /\ scratch_files # {}) => tmp_path # None

\* The findings of the checks that precede the lint step
FindingsBeforeLint ==
    validate_text(artifact, existing_paths)
       \o (IF looks_like_unified_diff(artifact, input_suffix)
           THEN validate_unified_diff(artifact) ELSE << >>)

LastWriteTo(j) == CHOOSE h \in DOMAIN written :
                     written[h] = written[j] /\ \A g \in DOMAIN written : written[g] = written[j] => g <= h

BundleItems == IF PayloadFiles(payload).tag = "list" THEN PayloadFiles(payload).l ELSE << >>

\* The entry has a non-blank content_b64 that fails the alphabet check or
\* that neither decoder accepts
B64Fails(entry) ==
    /\ entry.dict
    /\ entry.content_b64.tag = "str"
    /\ StripCP(entry.content_b64.s) # << >>
    /\ LET raw == RemoveSpaces(StripCP(entry.content_b64.s))
       IN  \/ ~InB64Alphabets(raw)
           \/ ~b64decode(Padded(raw)).ok /\ ~urlsafe_b64decode(Padded(raw)).ok

\* C19: when the parse returns, every entry whose non-blank content_b64
\* failed the alphabet check or both decoders has as content its plain
\* content field when that is not blank and its content_b64 string as given
\* otherwise; and when the parse fails for empty content, the entry it
\* failed at is not such an entry.
C19_Base64FailureFallsBack ==
    bundle_pc \in { "parsed", "failed" } =>
        /\ files # << >> =>
              \A j \in DOMAIN BundleItems :
                 B64Fails(BundleItems[j]) =>
                    files[Cardinality({ h \in 1..j : BundleItems[h].dict })].content
                       = (IF StripCP(StrOrEmpty(BundleItems[j].content)) # << >>
                          THEN StrOrEmpty(BundleItems[j].content)
                          ELSE BundleItems[j].content_b64.s)
        /\ bundle_error = "EmptyFileContent" =>
              ~B64Fails(BundleItems[Least({ j \in DOMAIN BundleItems :
                                              /\ BundleItems[j].dict
                                              /\ StripCP(Decoded(BundleItems[j])) = << >> })])

\* An entry without plain content whose content_b64, a blank and a character
\* outside the alphabets, became its content as it stood
C19_Witness ==
    /\ bundle_pc = "parsed"
    /\ Len(BundleItems) = 1
    /\ B64Fails(BundleItems[1])
    /\ StripCP(StrOrEmpty(BundleItems[1].content)) = << >>
    /\ StripCP(BundleItems[1].content_b64.s) # BundleItems[1].content_b64.s
    /\ files[1].content = BundleItems[1].content_b64.s

\* The entry has content_b64 as its only content field, holding text t in
\* one of the four encodings
SendsEncoded(entry, t) ==
    /\ entry.dict
    /\ entry.content_lines = JAbsent
    /\ entry.content = JAbsent
    /\ \E u \in BOOLEAN, pad \in BOOLEAN : entry.content_b64 = JStr(EncodedText(t, u, pad))

\* C20 as stated: a bundle of one entry that sends a non-blank text through
\* content_b64, in the standard or the URL-safe alphabet, padded or not,
\* parses to one entry whose content is that text.
C20_Base64RoundTrip ==
    (bundle_pc # "start" /\ Len(BundleItems) = 1) =>
        \A t \in RoundTripTexts :
           (SendsEncoded(BundleItems[1], t) /\ is_safe_relative_path(ItemPath(BundleItems[1])))
              => /\ bundle_error = None
                 /\ Len(files) = 1
                 /\ files[1].content = t

\* The round trip in the standard alphabet, padded or not
StandardRoundTrip ==
    (bundle_pc # "start" /\ Len(BundleItems) = 1) =>
        \A t \in RoundTripTexts, pad \in BOOLEAN :
           BundleItems[1] = Entry(JStr(<< "a" >>), JAbsent, JStr(EncodedText(t, FALSE, pad)), JAbsent)
              => files = << [path |-> << "a" >>, content |-> t] >>

\* The errors parse_file_bundle raises
ParseErrors == { "InvalidBundleJSON", "EmptyBundle", "UnsafePath", "EmptyFileContent" }

\* An object entry that parse_file_bundle does not accept
FaultyEntry(entry) ==
    \/ ~is_safe_relative_path(ItemPath(entry))
    \/ StripCP(Decoded(entry)) = << >>

\* C21: when parse_file_bundle ends it has either failed, with one of
\* its four errors and no list, or returned one entry for every object entry
\* of the payload, in their order, each with a safe path and non-blank
\* content. Text that is no JSON gives InvalidBundleJSON; a payload without
\* a non-empty files list or without object entries gives EmptyBundle; and
\* one faulty object entry makes the whole parse fail with UnsafePath or
\* EmptyFileContent.
C21_ParseAllOrNothing ==
    bundle_pc \in { "parsed", "failed" } =>
        LET entries == ObjectEntries
            faulty == [n \in DOMAIN entries |-> FaultyEntry(entries[n])]
        IN  /\ (files = << >>) = (bundle_error \in ParseErrors)
            /\ files # << >> =>
                  /\ Len(files) = Len(entries)
                  /\ \A n \in DOMAIN files :
                        /\ ~faulty[n]
                        /\ files[n].path = BackslashToSlash(ItemPath(entries[n]))
                        /\ files[n].content = Decoded(entries[n])
                        /\ StripCP(files[n].content) # << >>
            /\ payload.kind = "invalid" => bundle_error = "InvalidBundleJSON"
            /\ (payload.kind # "invalid" /\ entries = << >>) => bundle_error = "EmptyBundle"
            /\ (\E n \in DOMAIN entries : faulty[n])
                  => (files = << >> /\ bundle_error \in { "UnsafePath", "EmptyFileContent" })

\* The second of two object entries has no content: the parse fails and the
\* first entry, which is in order, is not returned
C21_Witness ==
    /\ bundle_pc = "failed"
    /\ bundle_error = "EmptyFileContent"
    /\ Len(ObjectEntries) = 2
    /\ ~FaultyEntry(ObjectEntries[1])
    /\ FaultyEntry(ObjectEntries[2])
    /\ files = << >>
    /\ written = << >>

\* ---------------------------------------------------------------------------
\* Further claims about the header repair
\* ---------------------------------------------------------------------------

\* A line that is no hunk line: empty, or with another first character than
\* ' ', '+', '-' and the backslash
IsMalformed(line) == line = << >> \/ line[1] \notin { " ", "+", "-", "\\" }

\* The lines of the input, and those of the output with the input's lines
\* in the places of all but the hunk headers
InputLines == SplitLines(diff_text)
OutputFrame ==
    [n \in 1..Len(InputLines) |->
        IF IsHunkHeader(InputLines[n]) THEN SplitLines(repaired)[n] ELSE InputLines[n]]

\* C22: when the first malformed line j after a hunk header h comes before
\* any header or file boundary, the repair returns a text all the same; the
\* header it writes for h carries the counts of the lines between h and j
\* (those starting with ' ' or '-', and those starting with ' ' or '+'); and
\* from line j on the output holds the lines of the input, in order, a later
\* hunk header being the only kind of line that may differ.
C22_MalformedLineStopsCounting ==
    diff_pc # "start" =>
        \A h \in DOMAIN InputLines : \A j \in (h + 1)..Len(InputLines) :
           (/\ IsHunkHeader(InputLines[h])
            /\ IsMalformed(InputLines[j])
            /\ \A k \in (h + 1)..(j - 1) :
                  ~IsMalformed(InputLines[k]) /\ ~IsBoundary(InputLines[k])
            /\ ~IsBoundary(InputLines[j]))
              => /\ repaired # NoText
                 /\ SplitLines(repaired)[h] =
                       RewrittenHeader(
                          OldStart(InputLines[h]),
                          Cardinality({ k \in (h + 1)..(j - 1) : InputLines[k][1] \in { " ", "-" } }),
                          NewStart(InputLines[h]),
                          Cardinality({ k \in (h + 1)..(j - 1) : InputLines[k][1] \in { " ", "+" } }))
                 /\ repaired = JoinLines(OutputFrame)
                 /\ \A n \in j..Len(SplitLines(repaired)) :
                       IsHunkHeader(InputLines[n]) \/ SplitLines(repaired)[n] = InputLines[n]

\* A header, a removed line, a malformed line: the header counts the removed
\* line only and the malformed line is in the output
C22_Witness ==
    /\ diff_pc = "once"
    /\ Len(InputLines) = 3
    /\ IsHunkHeader(InputLines[1])
    /\ InputLines[2] = << "-","b" >>
    /\ InputLines[3] = << "x" >>
    /\ SplitLines(repaired)[1] = RewrittenHeader(OldStart(InputLines[1]), 1, NewStart(InputLines[1]), 0)
    /\ SplitLines(repaired)[3] = << "x" >>

\* C30 as stated: the output has as many lines as the input, every line
\* that is no hunk header stands unchanged in its place, every rewritten
\* header keeps its two start numbers, and a text without "@@" is returned
\* as it is.
C30_OnlyHeadersChange ==
    diff_pc # "start" =>
        /\ Len(SplitLines(repaired)) = Len(InputLines)
        /\ \A n \in DOMAIN InputLines :
              IF IsHunkHeader(InputLines[n])
              THEN /\ IsHunkHeader(SplitLines(repaired)[n])
                   /\ OldStart(SplitLines(repaired)[n]) = OldStart(InputLines[n])
                   /\ NewStart(SplitLines(repaired)[n]) = NewStart(InputLines[n])
              ELSE SplitLines(repaired)[n] = InputLines[n]
        /\ ~Contains2(diff_text, "@", "@") => repaired = diff_text

\* C30 (amended): a text without "@@" is returned as it is; any other
\* text comes back as its lines joined by "\n", with no terminator after the
\* last, where every line that is no hunk header is unchanged and every hunk
\* header is a hunk header with the same two start numbers. Read back as
\* lines, the output has as many lines as the input, less one when the
\* input's last line is empty.
C30_OnlyHeadersAndLastTerminatorChange ==
    diff_pc # "start" =>
        IF ~Contains2(diff_text, "@", "@") THEN repaired = diff_text
        ELSE /\ repaired = JoinLines(OutputFrame)
             /\ Len(SplitLines(repaired)) =
                   Len(InputLines) - (IF InputLines[Len(InputLines)] = << >> THEN 1 ELSE 0)
             /\ \A n \in DOMAIN InputLines :
                   IsHunkHeader(InputLines[n]) =>
                      /\ IsHunkHeader(SplitLines(repaired)[n])
                      /\ OldStart(SplitLines(repaired)[n]) = OldStart(InputLines[n])
                      /\ NewStart(SplitLines(repaired)[n]) = NewStart(InputLines[n])

\* A hunk header followed by two empty lines: the header is rewritten with
\* its start numbers, and the output has one line less than the input
C30_Witness ==
    /\ diff_pc = "once"
    /\ Len(InputLines) = 2
    /\ IsHunkHeader(InputLines[1])
    /\ InputLines[2] = << >>
    /\ Len(SplitLines(repaired)) = 1
    /\ SplitLines(repaired)[1] # InputLines[1]
    /\ OldStart(SplitLines(repaired)[1]) = OldStart(InputLines[1])

----------------------------------------------------------------------------
(* The state of the brace scan                                             *)

\* The number of string and comment contexts the scan is in
ActiveContexts ==
    Cardinality({ c \in {"sq", "dq", "line", "block"} :
                    \/ c = "sq" /\ in_sq
                    \/ c = "dq" /\ in_dq
                    \/ c = "line" /\ in_line_comment
                    \/ c = "block" /\ in_block_comment })

\* The scan's flags and depth are consistent
ScanStateOk ==
    /\ ActiveContexts <= 1
    /\ escape => (in_sq \/ in_dq)
    /\ depth >= 0

\* One iteration of the loop of lines 169-236 changes the contexts and the
\* depth only as the character under the cursor allows
ScanIterationOk ==
    (pc = "scan" /\ iterations' # iterations) =>
        LET ch  == text[i + 1]
            nxt == NextChar(text, i)
            normal == InNormal(Locals)
        IN  /\ (in_sq /\ ~in_sq') => (~escape /\ ch = "'")
            /\ (in_dq /\ ~in_dq') => (~escape /\ ch = "\"")
            /\ (in_line_comment /\ ~in_line_comment') => ch = "\n"
            /\ (in_block_comment /\ ~in_block_comment') => (ch = "*" /\ nxt = "/")
            /\ (~in_sq /\ in_sq') => (normal /\ ch = "'")
            /\ (~in_dq /\ in_dq') => (normal /\ ch = "\"")
            /\ (~in_line_comment /\ in_line_comment') =>
                   (normal /\ (ch = "#" \/ (ch = "/" /\ nxt = "/")))
            /\ (~in_block_comment /\ in_block_comment') =>
                   (normal /\ ch = "/" /\ nxt = "*")
            /\ (escape' /\ ~escape) => ((in_sq \/ in_dq) /\ ch = "\\")
            /\ (depth' # depth) =>
                   /\ normal
                   /\ \/ ch = "{" /\ depth' = depth + 1
                      \/ ch = "}" /\ depth' = depth - 1

\* C25: at every step of the brace scan at most one of the four string and
\* comment contexts is active, the escape flag is set only inside a string,
\* the depth is never negative, a string is left only on its own unescaped
\* quote, a line comment only on a newline, a block comment only on "*/",
\* a context is opened only from the normal state by its opening characters,
\* and the depth changes only by one on a brace seen in the normal state.
C25_ScannerStateInvariant == []ScanStateOk /\ [][ScanIterationOk]_vars

\* The scan is inside a single-quoted string, just past a backslash, with
\* the function's opening brace counted
C25_Witness ==
    /\ pc = "scan"
    /\ in_sq
    /\ escape
    /\ depth >= 1
    /\ text[i + 1] = "'"

----------------------------------------------------------------------------
(* suitecrm_agent/utils.py: chunk_text(text, chunk_size, overlap), a       *)
(* generator, as driven by list(chunk_text(...)) in agent.py lines 176-184 *)
(* and summarizer.py lines 58-66                                           *)

MaxChunkText == 4
MaxChunkSize == 3

ChunkAlphabet == << "a", "b", "c", "d", "e", "f" >>

\* One text of each length up to MaxChunkText
ChunkTexts == { SubSeq(ChunkAlphabet, 1, n) : n \in 0..MaxChunkText }

\* config.project.chunk_size and chunk_overlap are int(...) of the
\* environment or the configuration file, unchecked (config.py lines 118-121)
ChunkSizes == -1..MaxChunkSize
Overlaps == -1..MaxChunkSize

InitChunk ==
    /\ SpanIdle
    /\ DiffIdle
    /\ BundleIdle
    /\ SnippetIdle
    /\ ValidateIdle
    /\ RunIdle
    /\ RetryIdle
    /\ CacheIdle
    /\ PatchIdle
    /\ chunk_input \in ChunkTexts
    /\ chunk_size \in ChunkSizes
    /\ overlap \in Overlaps
    /\ chunk_start = 0
    /\ chunk_end = 0
    /\ first_chunk = NoText
    /\ chunk_pc = "entry"

\* The caller's list receives one more chunk
Appended(chunk) == IF first_chunk = NoText THEN chunk ELSE first_chunk

\* lines 37-39: if chunk_size <= 0: yield text; return
YieldWhole ==
    /\ chunk_pc = "entry"
    /\ chunk_size <= 0
    /\ first_chunk' = Appended(chunk_input)
    /\ chunk_pc' = "done"
    /\ UNCHANGED << chunk_input, chunk_size, overlap, chunk_start, chunk_end >>

\* lines 41-42: start = 0; length = len(text)
EnterLoop ==
    /\ chunk_pc = "entry"
    /\ chunk_size > 0
    /\ chunk_start' = 0
    /\ chunk_pc' = "test"
    /\ UNCHANGED << chunk_input, chunk_size, overlap, chunk_end, first_chunk >>

\* line 43: while start < length, false
LoopEnds ==
    /\ chunk_pc = "test"
    /\ ~(chunk_start < Len(chunk_input))
    /\ chunk_pc' = "done"
    /\ UNCHANGED << chunk_input, chunk_size, overlap, chunk_start, chunk_end,
                    first_chunk >>

\* end = min(start + chunk_size, length)
ChunkEnd(st, size, length) ==
    IF st + size < length THEN st + size ELSE length

\* lines 43-45: end = min(start + chunk_size, length); yield text[start:end]
YieldChunk ==
    /\ chunk_pc = "test"
    /\ chunk_start < Len(chunk_input)
    /\ chunk_end' = ChunkEnd(chunk_start, chunk_size, Len(chunk_input))
    /\ first_chunk' = Appended(Slice(chunk_input, chunk_start, chunk_end'))
    /\ chunk_pc' = "yielded"
    /\ UNCHANGED << chunk_input, chunk_size, overlap, chunk_start >>

\* lines 46-47: if end == length: break
BreakAtEnd ==
    /\ chunk_pc = "yielded"
    /\ chunk_end = Len(chunk_input)
    /\ chunk_pc' = "done"
    /\ UNCHANGED << chunk_input, chunk_size, overlap, chunk_start, chunk_end,
                    first_chunk >>

\* line 48: start = max(end - overlap, 0)
NextStart(en, ov) == IF en - ov > 0 THEN en - ov ELSE 0

Advance ==
    /\ chunk_pc = "yielded"
    /\ chunk_end # Len(chunk_input)
    /\ chunk_start' = NextStart(chunk_end, overlap)
    /\ chunk_pc' = "test"
    /\ UNCHANGED << chunk_input, chunk_size, overlap, chunk_end, first_chunk >>

ChunkFrame == << spanVars, diffVars, bundleVars, snippetVars, validateVars, runVars,
                retryVars, cacheVars, patchVars >>

NextChunk ==
    \/ YieldWhole /\ UNCHANGED ChunkFrame
    \/ EnterLoop /\ UNCHANGED ChunkFrame
    \/ LoopEnds /\ UNCHANGED ChunkFrame
    \/ YieldChunk /\ UNCHANGED ChunkFrame
    \/ BreakAtEnd /\ UNCHANGED ChunkFrame
    \/ Advance /\ UNCHANGED ChunkFrame

SpecChunk == InitChunk /\ [][NextChunk]_vars

\* list() asks the generator for its next chunk until it is exhausted, so
\* the generator is resumed whenever it can take a step
SpecChunkLive == SpecChunk /\ WF_vars(NextChunk)

\* The overlap is smaller than a chunk, or there is no loop to go round
OverlapBelowSize ==
    chunk_size <= 0 \/ overlap < chunk_size \/ Len(chunk_input) <= chunk_size

\* With an overlap smaller than a chunk the generator is exhausted
TerminatesBelowSize == OverlapBelowSize => <>(chunk_pc = "done")

\* C29: chunk_text terminates for every text, chunk_size and overlap: the
\* generator is eventually exhausted, so list(chunk_text(...)) returns.
C29_ChunkTextTerminates == <>(chunk_pc = "done")

----------------------------------------------------------------------------
(* refactor_to_patch.py: main from the first model request to the write of *)
(* the patch file, and the __main__ block around it.  Texts are kept as    *)
(* the properties main and its validators test of them.                    *)

Modes == { "auto", "full-file", "function" }

\* original_text: whether it starts with "<?php" after lstrip, whether it
\* contains "function " + function_name, and what _find_php_function_span
\* makes of it
Originals ==
    [ kind : {"text"}, php_header : BOOLEAN, holds_function : BOOLEAN,
      locate : {"Span", "FunctionNotFound", "NoOpeningBrace", "BraceMismatch"} ]

\* What full_file_request can return: blank text, or text with or without
\* the "<?php" start and "function " + function_name
FullResponses ==
    { r \in [ kind : {"text"}, blank : BOOLEAN, php_header : BOOLEAN,
              holds_function : BOOLEAN ] :
        r.blank => (~r.php_header /\ ~r.holds_function) }

\* What function_only_request can return: blank text, or text with or
\* without "<?php", the function's signature and both braces
FunctionResponses ==
    { r \in [ kind : {"text"}, blank : BOOLEAN, full_file : BOOLEAN,
              signature : BOOLEAN, braces : BOOLEAN ] :
        r.blank => (~r.full_file /\ ~r.signature /\ ~r.braces) }

\* lines 119-127: _validate_full_php_output does not raise
ValidFull(o, r, name) ==
    /\ ~r.blank
    /\ ~(o.php_header /\ ~r.php_header)
    /\ ~(name # "" /\ o.holds_function /\ ~r.holds_function)

\* lines 130-139: _validate_function_output does not raise
ValidFunction(r) ==
    /\ ~r.blank
    /\ ~r.full_file
    /\ r.signature
    /\ r.braces

\* line 344 with the fallback taken in every mode
ReraisesNever(md) == FALSE

\* line 344: if args.mode == "full-file": raise
Reraises(md) == md = "full-file"

InitRun ==
    /\ SpanIdle
    /\ DiffIdle
    /\ BundleIdle
    /\ SnippetIdle
    /\ ValidateIdle
    /\ ChunkIdle
    /\ RetryIdle
    /\ CacheIdle
    /\ PatchIdle
    /\ mode \in Modes
    /\ arg_function_name \in { "", "f" }
    /\ original \in Originals
    /\ patch_before \in { None, "old" }
    /\ patch_file = patch_before
    /\ mode_used = mode
    /\ full_response = NoResponse
    /\ function_response = NoResponse
    /\ full_requests = 0
    /\ function_requests = 0
    /\ main_new_text = ""
    /\ run_error = None
    /\ run_pc = "mode"
    /\ run_exit = -1

\* line 339: args.mode is "function"
SkipFullFile ==
    /\ run_pc = "mode"
    /\ mode \notin { "full-file", "auto" }
    /\ run_pc' = "function"
    /\ UNCHANGED << mode, arg_function_name, original, patch_before, patch_file,
                    mode_used, full_response, function_response, full_requests,
                    function_requests, main_new_text, run_error, run_exit >>

\* line 341: new_text = full_file_request()
FullFileRequest ==
    /\ run_pc = "mode"
    /\ mode \in { "full-file", "auto" }
    /\ full_requests' = full_requests + 1
    /\ \E r \in FullResponses : full_response' = r
    /\ main_new_text' = "full_response"
    /\ run_pc' = "validate_full"
    /\ UNCHANGED << mode, arg_function_name, original, patch_before, patch_file,
                    mode_used, function_response, function_requests, run_error,
                    run_exit >>

\* line 341: the request raises (no ModelOutputError: call_model, lines
\* 285-293, raises none), and the exception leaves main
FullFileRequestFails ==
    /\ run_pc = "mode"
    /\ mode \in { "full-file", "auto" }
    /\ full_requests' = full_requests + 1
    /\ run_error' = "RequestError"
    /\ run_pc' = "raised"
    /\ UNCHANGED << mode, arg_function_name, original, patch_before, patch_file,
                    mode_used, full_response, function_response,
                    function_requests, main_new_text, run_exit >>

\* line 342: the validation passes
FullFileAccepted ==
    /\ run_pc = "validate_full"
    /\ ValidFull(original, full_response, arg_function_name)
    /\ run_pc' = "function"
    /\ UNCHANGED << mode, arg_function_name, original, patch_before, patch_file,
                    mode_used, full_response, function_response, full_requests,
                    function_requests, main_new_text, run_error, run_exit >>

\* lines 343-345: ModelOutputError with args.mode == "full-file"
FullFileRejected ==
    /\ run_pc = "validate_full"
    /\ ~ValidFull(original, full_response, arg_function_name)
    /\ Reraises(mode)
    /\ run_error' = "ModelOutputError"
    /\ run_pc' = "raised"
    /\ UNCHANGED << mode, arg_function_name, original, patch_before, patch_file,
                    mode_used, full_response, function_response, full_requests,
                    function_requests, main_new_text, run_exit >>

\* lines 343-346: ModelOutputError otherwise: mode_used = "function"
FallBack ==
    /\ run_pc = "validate_full"
    /\ ~ValidFull(original, full_response, arg_function_name)
    /\ ~Reraises(mode)
    /\ mode_used' = "function"
    /\ run_pc' = "function"
    /\ UNCHANGED << mode, arg_function_name, original, patch_before, patch_file,
                    full_response, function_response, full_requests,
                    function_requests, main_new_text, run_error, run_exit >>

\* line 348: mode_used is not "function"
SkipFunction ==
    /\ run_pc = "function"
    /\ mode_used # "function"
    /\ run_pc' = "write"
    /\ UNCHANGED << mode, arg_function_name, original, patch_before, patch_file,
                    mode_used, full_response, function_response, full_requests,
                    function_requests, main_new_text, run_error, run_exit >>

\* lines 349-350: ValueError("--function-name is required ...")
FunctionNameMissing ==
    /\ run_pc = "function"
    /\ mode_used = "function"
    /\ arg_function_name = ""
    /\ run_error' = "ValueError"
    /\ run_pc' = "raised"
    /\ UNCHANGED << mode, arg_function_name, original, patch_before, patch_file,
                    mode_used, full_response, function_response, full_requests,
                    function_requests, main_new_text, run_exit >>

\* line 351: function_text = function_only_request()
FunctionRequest ==
    /\ run_pc = "function"
    /\ mode_used = "function"
    /\ arg_function_name # ""
    /\ function_requests' = function_requests + 1
    /\ \E r \in FunctionResponses : function_response' = r
    /\ run_pc' = "validate_function"
    /\ UNCHANGED << mode, arg_function_name, original, patch_before, patch_file,
                    mode_used, full_response, full_requests, main_new_text,
                    run_error, run_exit >>

\* line 351: the request raises
FunctionRequestFails ==
    /\ run_pc = "function"
    /\ mode_used = "function"
    /\ arg_function_name # ""
    /\ function_requests' = function_requests + 1
    /\ run_error' = "RequestError"
    /\ run_pc' = "raised"
    /\ UNCHANGED << mode, arg_function_name, original, patch_before, patch_file,
                    mode_used, full_response, function_response, full_requests,
                    main_new_text, run_exit >>

\* line 352: _validate_function_output raises ModelOutputError
FunctionRejected ==
    /\ run_pc = "validate_function"
    /\ ~ValidFunction(function_response)
    /\ run_error' = "ModelOutputError"
    /\ run_pc' = "raised"
    /\ UNCHANGED << mode, arg_function_name, original, patch_before, patch_file,
                    mode_used, full_response, function_response, full_requests,
                    function_requests, main_new_text, run_exit >>

\* line 353: new_text = _replace_php_function(...)
ReplaceFunction ==
    /\ run_pc = "validate_function"
    /\ ValidFunction(function_response)
    /\ original.locate = "Span"
    /\ main_new_text' = "replaced"
    /\ run_pc' = "write"
    /\ UNCHANGED << mode, arg_function_name, original, patch_before, patch_file,
                    mode_used, full_response, function_response, full_requests,
                    function_requests, run_error, run_exit >>

\* line 353: _find_php_function_span raises its ValueError
LocateFails ==
    /\ run_pc = "validate_function"
    /\ ValidFunction(function_response)
    /\ original.locate # "Span"
    /\ run_error' = original.locate
    /\ run_pc' = "raised"
    /\ UNCHANGED << mode, arg_function_name, original, patch_before, patch_file,
                    mode_used, full_response, function_response, full_requests,
                    function_requests, main_new_text, run_exit >>

\* lines 357-388: the diff is built and written to the output file;
\* return 0 and raise SystemExit(main())
WritePatch ==
    /\ run_pc = "write"
    /\ patch_file' = "patch"
    /\ run_exit' = 0
    /\ run_pc' = "exited"
    /\ UNCHANGED << mode, arg_function_name, original, patch_before,
                    mode_used, full_response, function_response, full_requests,
                    function_requests, main_new_text, run_error >>

\* __main__ leaving the output file emptied when main raises
ExitWithErrorTruncating ==
    /\ run_pc = "raised"
    /\ patch_file' = "empty"
    /\ run_exit' = 1
    /\ run_pc' = "exited"
    /\ UNCHANGED << mode, arg_function_name, original, patch_before,
                    mode_used, full_response, function_response, full_requests,
                    function_requests, main_new_text, run_error >>

\* lines 394-396: except Exception: print the error, raise SystemExit(1)
ExitWithError ==
    /\ run_pc = "raised"
    /\ run_exit' = 1
    /\ run_pc' = "exited"
    /\ UNCHANGED << mode, arg_function_name, original, patch_before, patch_file,
                    mode_used, full_response, function_response, full_requests,
                    function_requests, main_new_text, run_error >>

RunFrame == << spanVars, diffVars, bundleVars, snippetVars, validateVars, chunkVars,
              retryVars, cacheVars, patchVars >>

NextRun ==
    \/ SkipFullFile /\ UNCHANGED RunFrame
    \/ FullFileRequest /\ UNCHANGED RunFrame
    \/ FullFileRequestFails /\ UNCHANGED RunFrame
    \/ FullFileAccepted /\ UNCHANGED RunFrame
    \/ FullFileRejected /\ UNCHANGED RunFrame
    \/ FallBack /\ UNCHANGED RunFrame
    \/ SkipFunction /\ UNCHANGED RunFrame
    \/ FunctionNameMissing /\ UNCHANGED RunFrame
    \/ FunctionRequest /\ UNCHANGED RunFrame
    \/ FunctionRequestFails /\ UNCHANGED RunFrame
    \/ FunctionRejected /\ UNCHANGED RunFrame
    \/ ReplaceFunction /\ UNCHANGED RunFrame
    \/ LocateFails /\ UNCHANGED RunFrame
    \/ WritePatch /\ UNCHANGED RunFrame
    \/ ExitWithError /\ UNCHANGED RunFrame

SpecRun == InitRun /\ [][NextRun]_vars

\* The full-file response was received and failed _validate_full_php_output
FullFileFailedValidation ==
    /\ full_response.kind = "text"
    /\ ~ValidFull(original, full_response, arg_function_name)

\* What C26 says of every mode but the "if and only if" of mode auto
RequestsPerMode ==
    /\ full_requests <= 1
    /\ function_requests <= 1
    /\ mode = "function" => full_requests = 0
    /\ mode = "full-file" => function_requests = 0
    /\ (mode = "full-file" /\ run_pc = "exited" /\ FullFileFailedValidation)
          => (run_error = "ModelOutputError" /\ run_exit = 1)
    /\ (mode = "auto" /\ function_requests = 1) => FullFileFailedValidation
    /\ (full_requests = 1 /\ full_response.kind # "text" /\ run_pc = "exited")
          => (run_error = "RequestError" /\ function_requests = 0)

\* C26 as stated: with mode auto the function-only request is issued if and
\* only if the full-file response failed validation; with mode full-file a
\* failed validation ends the run in error without a function-only
\* request; with mode function there is no full-file request; any other
\* failure of the full-file request propagates; at most one request of
\* each kind is made.
C26_FallbackIffValidationFailed ==
    /\ RequestsPerMode
    /\ (mode = "auto" /\ run_pc = "exited")
          => (function_requests = 1 <=> FullFileFailedValidation)

\* C26, amended: with mode auto the function-only request is issued if and
\* only if the full-file response failed validation and the function name
\* is not empty; with an empty function name a failed validation ends the
\* run with the ValueError of line 350 and no function-only request.
C26_FallbackIffValidationFailedAndNamed ==
    /\ RequestsPerMode
    /\ (mode = "auto" /\ run_pc = "exited")
          => (function_requests = 1
                <=> (FullFileFailedValidation /\ arg_function_name # ""))
    /\ (mode = "auto" /\ run_pc = "exited" /\ FullFileFailedValidation
           /\ arg_function_name = "")
          => (run_error = "ValueError" /\ run_exit = 1 /\ function_requests = 0)

\* A run in mode auto that fell back to the function-only request and
\* wrote its patch
C26_Witness ==
    /\ mode = "auto"
    /\ run_pc = "exited"
    /\ FullFileFailedValidation
    /\ full_requests = 1
    /\ function_requests = 1
    /\ run_exit = 0

\* main holds a new full text: a validated full-file response or the
\* original with the function replaced
TextProduced ==
    \/ main_new_text = "replaced"
    \/ /\ main_new_text = "full_response"
       /\ mode_used # "function"
       /\ ValidFull(original, full_response, arg_function_name)

\* C24: when a model-output validation fails with no fallback allowed, or
\* the span locator fails, the run ends with an error (exit status 1) and
\* the output file is as it was before the run; the output file is written
\* only after a new full text was produced.
C24_NoPatchOnFatalError ==
    /\ run_error # None
          => (patch_file = patch_before /\ run_pc \in { "raised", "exited" })
    /\ (run_error # None /\ run_pc = "exited") => run_exit = 1
    /\ run_exit = 0 => run_error = None
    /\ patch_file # patch_before => (TextProduced /\ run_error = None)

\* A run in mode auto whose fallback ended in the locator's brace mismatch,
\* with an output file left from an earlier run
C24_Witness ==
    /\ run_pc = "exited"
    /\ mode = "auto"
    /\ run_error = "BraceMismatch"
    /\ patch_before = "old"
    /\ patch_file = "old"
    /\ run_exit = 1

----------------------------------------------------------------------------
(* generate_from_codebase.py, run_one lines 751-764, and the same          *)
(* statements in generate_from_codebase_and_auto_summarization.py lines    *)
(* 573-587: parse the bundle, ask the model once to repair it when the     *)
(* parse raises, then write_module_files                                   *)

MaxRetryFiles == 1

\* The model's first outputs
RetryPayloads ==
    OddPayloads \cup Payloads({"list", "dict"}, EntryLists(MaxRetryFiles))

\* The model's repaired outputs
RepairedPayloads ==
    OddPayloads \cup Payloads({"dict"}, EntryLists(MaxRetryFiles))

InitRetry ==
    /\ SpanIdle
    /\ DiffIdle
    /\ SnippetIdle
    /\ ValidateIdle
    /\ ChunkIdle
    /\ RunIdle
    /\ CacheIdle
    /\ PatchIdle
    /\ payload = [kind |-> "none"]
    /\ bundle_pc = "idle"
    /\ files = << >>
    /\ bundle_error = None
    /\ written = << >>
    /\ fs \in { FileSystem(a) : a \in {"nodir", "none", "dir", "out"} }
    /\ fs_before = fs
    /\ output_text \in RetryPayloads
    /\ repaired_output = [kind |-> "none"]
    /\ repair_requests = 0
    /\ retry_error = None
    /\ retry_pc = "parse"

\* lines 752-753 and 762-764: files = parse_file_bundle(output_text)
\* returns, and write_module_files is called
ParseOriginal ==
    /\ retry_pc = "parse"
    /\ parse_file_bundle(output_text).error = None
    /\ payload' = output_text
    /\ files' = parse_file_bundle(output_text).files
    /\ bundle_pc' = "parsed"
    /\ retry_pc' = "write"
    /\ UNCHANGED << bundle_error, fs, written, repaired_output, repair_requests,
                    fs_before, retry_error, output_text >>

\* lines 752-754: parse_file_bundle(output_text) raises and the exception
\* is caught
ParseOriginalRaises ==
    /\ retry_pc = "parse"
    /\ parse_file_bundle(output_text).error # None
    /\ retry_pc' = "repair"
    /\ UNCHANGED << bundleVars, repaired_output, repair_requests, fs_before,
                    retry_error, output_text >>

\* lines 755-760: repaired = repair_file_bundle_json(...)
RepairRequest ==
    /\ retry_pc = "repair"
    /\ repair_requests' = repair_requests + 1
    /\ \E r \in RepairedPayloads : repaired_output' = r
    /\ retry_pc' = "reparse"
    /\ UNCHANGED << bundleVars, fs_before, retry_error, output_text >>

\* lines 755-760: run_chat_completion raises inside the repair request
RepairRequestFails ==
    /\ retry_pc = "repair"
    /\ repair_requests' = repair_requests + 1
    /\ retry_error' = "RequestError"
    /\ retry_pc' = "failed"
    /\ UNCHANGED << bundleVars, repaired_output, fs_before, output_text >>

\* The repaired output parsed with faulty entries skipped
ParseRepairedSkipping ==
    /\ retry_pc = "reparse"
    /\ payload' = repaired_output
    /\ files' = (IF repaired_output.kind = "invalid"
                    \/ PayloadFiles(repaired_output).tag # "list"
                 THEN << >>
                 ELSE ParseFromSkipping(PayloadFiles(repaired_output).l, 1, << >>).files)
    /\ bundle_pc' = "parsed"
    /\ retry_pc' = "write"
    /\ UNCHANGED << bundle_error, fs, written, repaired_output, repair_requests,
                    fs_before, retry_error, output_text >>

\* lines 761-764: files = parse_file_bundle(repaired) returns, and
\* write_module_files is called
ParseRepaired ==
    /\ retry_pc = "reparse"
    /\ parse_file_bundle(repaired_output).error = None
    /\ payload' = repaired_output
    /\ files' = parse_file_bundle(repaired_output).files
    /\ bundle_pc' = "parsed"
    /\ retry_pc' = "write"
    /\ UNCHANGED << bundle_error, fs, written, repaired_output, repair_requests,
                    fs_before, retry_error, output_text >>

\* line 761: parse_file_bundle(repaired) raises and the exception leaves
\* run_one
ParseRepairedRaises ==
    /\ retry_pc = "reparse"
    /\ parse_file_bundle(repaired_output).error # None
    /\ retry_error' = parse_file_bundle(repaired_output).error
    /\ retry_pc' = "failed"
    /\ UNCHANGED << bundleVars, repaired_output, repair_requests, fs_before,
                    output_text >>

RetryFrame == << spanVars, diffVars, snippetVars, validateVars, chunkVars, runVars,
                cacheVars, patchVars >>

NextRetry ==
    \/ ParseOriginal /\ UNCHANGED RetryFrame
    \/ ParseOriginalRaises /\ UNCHANGED RetryFrame
    \/ RepairRequest /\ UNCHANGED RetryFrame
    \/ RepairRequestFails /\ UNCHANGED RetryFrame
    \/ ParseRepaired /\ UNCHANGED RetryFrame
    \/ ParseRepairedRaises /\ UNCHANGED RetryFrame
    \/ MakeModuleDir /\ UNCHANGED << RetryFrame, retryVars >>
    \/ RefuseEntry /\ UNCHANGED << RetryFrame, retryVars >>
    \/ WriteBlocked /\ UNCHANGED << RetryFrame, retryVars >>
    \/ WriteUnencodable /\ UNCHANGED << RetryFrame, retryVars >>
    \/ WriteEntry /\ UNCHANGED << RetryFrame, retryVars >>
    \/ WriteReturns /\ UNCHANGED << RetryFrame, retryVars >>

SpecRetry == InitRetry /\ [][NextRetry]_vars

\* write_module_files has been called
WriteCalled == bundle_pc # "idle"

\* C27: the repair request is issued only after parse_file_bundle failed on
\* the original output, and at most once; write_module_files is called only
\* after a parse succeeded, on the original or on the repaired output, with
\* the list that parse returned; when the repaired output fails to parse
\* too, the run fails and nothing is written into the destination.
C27_RepairOnceThenWrite ==
    /\ repair_requests <= 1
    /\ repair_requests = 1 => parse_file_bundle(output_text).error # None
    /\ WriteCalled =>
          /\ payload \in { output_text, repaired_output }
          /\ payload = repaired_output => repair_requests = 1
          /\ parse_file_bundle(payload).error = None
          /\ files = parse_file_bundle(payload).files
    /\ (repaired_output.kind # "none" /\ retry_pc # "reparse"
           /\ parse_file_bundle(repaired_output).error # None)
          => /\ retry_pc = "failed"
             /\ retry_error = parse_file_bundle(repaired_output).error
             /\ ~WriteCalled
             /\ written = << >>
             /\ fs = fs_before

\* The original output failed to parse, the repaired one parsed, and its
\* file was written
C27_Witness ==
    /\ repair_requests = 1
    /\ parse_file_bundle(output_text).error # None
    /\ payload = repaired_output
    /\ bundle_pc = "done"
    /\ Len(written) = 1

----------------------------------------------------------------------------
(* suitecrm_agent: SuiteCRMAgent._ensure_summary (agent.py lines 110-127)  *)
(* over SummaryStore (store.py lines 54-115) and                           *)
(* AutoSummarizer.summarize_module (summarizer.py lines 48-56, 123-146)    *)

MaxEnsureRuns == 3
MaxSourceVersion == 1

\* The indexed modules, by directory name
Modules == { << "A" >>, << "B" >> }

\* What the model returns under "name"
ModelNames == { << "A" >>, << "B" >>, << "a" >>, << "A", "/", "B" >> }

\* The model's response: no JSON, JSON without "name", JSON with a name
Replies ==
    { [kind |-> "invalid", name |-> << >>], [kind |-> "json", name |-> << >>] }
        \cup { [kind |-> "named", name |-> n] : n \in ModelNames }

\* compute_sha256(paths): one value per list of paths and their contents
Hash(md, version) == << md, version >>

\* store.py lines 54-56: module.replace("/", "_"), the stem of summary_path
SafeName(n) == [k \in DOMAIN n |-> IF n[k] = "/" THEN "_" ELSE n[k]]

\* store.py lines 105-115: needs_refresh(module, file_paths)
NeedsRefresh(dir, md, current_hash) ==
    IF SafeName(md) \notin DOMAIN dir THEN TRUE
    ELSE dir[SafeName(md)].source_hash # current_hash

\* summarizer.py lines 123-146: the name of the summary _parse_response returns
SummaryName(reply, md) == IF reply.kind = "named" THEN reply.name ELSE md

\* store.py lines 83-87: save writes the summary under its own name
Save(dir, summary) ==
    [f \in DOMAIN dir \cup { SafeName(summary.name) } |->
        IF f = SafeName(summary.name) THEN summary ELSE dir[f]]

InitCache ==
    /\ SpanIdle
    /\ DiffIdle
    /\ BundleIdle
    /\ SnippetIdle
    /\ ValidateIdle
    /\ ChunkIdle
    /\ RunIdle
    /\ RetryIdle
    /\ PatchIdle
    /\ store = << >>
    /\ source_version = [md \in Modules |-> 0]
    /\ last_ensured = [md \in Modules |-> -1]
    /\ summarizer_calls = 0
    /\ ensure_runs = 0
    /\ cached = NoSummary

\* agent.py lines 110-118: needs_refresh is true: summarize, save, return
Summarize ==
    /\ ensure_runs < MaxEnsureRuns
    /\ \E md \in Modules, reply \in Replies :
          /\ NeedsRefresh(store, md, Hash(md, source_version[md]))
          /\ LET summary == [name |-> SummaryName(reply, md),
                             source_hash |-> Hash(md, source_version[md])]
             IN  /\ store' = Save(store, summary)
                 /\ cached' = summary
          /\ last_ensured' = [last_ensured EXCEPT ![md] = source_version[md]]
    /\ summarizer_calls' = summarizer_calls + 1
    /\ ensure_runs' = ensure_runs + 1
    /\ UNCHANGED source_version

\* agent.py lines 120-122: needs_refresh is false: load and return
LoadCached ==
    /\ ensure_runs < MaxEnsureRuns
    /\ \E md \in Modules :
          /\ ~NeedsRefresh(store, md, Hash(md, source_version[md]))
          /\ cached' = store[SafeName(md)]
          /\ last_ensured' = [last_ensured EXCEPT ![md] = source_version[md]]
    /\ ensure_runs' = ensure_runs + 1
    /\ UNCHANGED << store, source_version, summarizer_calls >>

\* A source file of a module is edited between two runs
EditSources ==
    /\ \E md \in Modules :
          /\ source_version[md] < MaxSourceVersion
          /\ source_version' = [source_version EXCEPT ![md] = @ + 1]
    /\ UNCHANGED << store, last_ensured, summarizer_calls, ensure_runs, cached >>

CacheFrame == << spanVars, diffVars, bundleVars, snippetVars, validateVars, chunkVars,
                runVars, retryVars, patchVars >>

NextCache ==
    \/ Summarize /\ UNCHANGED CacheFrame
    \/ LoadCached /\ UNCHANGED CacheFrame
    \/ EditSources /\ UNCHANGED CacheFrame

SpecCache == InitCache /\ [][NextCache]_vars

\* A call of _ensure_summary for a module whose sources are as they were
\* at its last call
RepeatedCall ==
    /\ ensure_runs' = ensure_runs + 1
    /\ \E md \in Modules :
          /\ last_ensured[md] = source_version[md]
          /\ last_ensured'[md] = source_version[md]
          /\ \A other \in Modules \ { md } : last_ensured'[other] = last_ensured[other]

\* C28: a call of _ensure_summary for a module that was summarized before,
\* its source files unchanged since, does not call the summarizer again,
\* whatever the model returned the first time.
C28_CacheReused == [][RepeatedCall => summarizer_calls' = summarizer_calls]_vars

----------------------------------------------------------------------------
(* refactor_to_patch.py main, lines 357-383: the patch built with          *)
(* difflib.unified_diff over the lines of the two texts, then screened by  *)
(* validate_unified_diff.  difflib is modelled by what its documentation   *)
(* and code say of SequenceMatcher without junk: lists are sequences of    *)
(* lines, offsets are Python's, counted from 0.                            *)

\* a[i:i+k] == b[j:j+k]
BlocksEqual(la, lb, ai, bj, k) ==
    \A d \in 1..k : la[ai + d] = lb[bj + d]

\* SequenceMatcher.find_longest_match(alo, ahi, blo, bhi): of all maximal
\* matching blocks the one that starts earliest in a, and of those the one
\* that starts earliest in b; (alo, blo, 0) when no line matches
FindLongestMatch(la, lb, alo, ahi, blo, bhi) ==
    LET blocks == { c \in (alo..ahi) \X (blo..bhi) \X (0..(ahi - alo)) :
                      /\ c[1] + c[3] <= ahi
                      /\ c[2] + c[3] <= bhi
                      /\ BlocksEqual(la, lb, c[1], c[2], c[3]) }
        longest == CHOOSE k \in { c[3] : c \in blocks } :
                      \A c \in blocks : c[3] <= k
    IN  IF longest = 0 THEN << alo, blo, 0 >>
        ELSE LET first_a == Least({ c[1] : c \in { x \in blocks : x[3] = longest } })
                 first_b == Least({ c[2] : c \in { x \in blocks :
                                       x[3] = longest /\ x[1] = first_a } })
             IN  << first_a, first_b, longest >>

\* SequenceMatcher.get_matching_blocks, before the final (la, lb, 0): the
\* longest match, then the matches to its left and to its right
RECURSIVE MatchingBlocks(_, _, _, _, _, _)
MatchingBlocks(la, lb, alo, ahi, blo, bhi) ==
    LET x == FindLongestMatch(la, lb, alo, ahi, blo, bhi)
    IN  IF x[3] = 0 THEN << >>
        ELSE (IF alo < x[1] /\ blo < x[2]
              THEN MatchingBlocks(la, lb, alo, x[1], blo, x[2]) ELSE << >>)
             \o << x >>
             \o (IF x[1] + x[3] < ahi /\ x[2] + x[3] < bhi
                 THEN MatchingBlocks(la, lb, x[1] + x[3], ahi, x[2] + x[3], bhi)
                 ELSE << >>)

\* get_matching_blocks: adjacent blocks are merged into one
RECURSIVE Collapse(_)
Collapse(blocks) ==
    IF Len(blocks) < 2 THEN blocks
    ELSE LET x == blocks[1]
             y == blocks[2]
         IN  IF x[1] + x[3] = y[1] /\ x[2] + x[3] = y[2]
             THEN Collapse(<< << x[1], x[2], x[3] + y[3] >> >> \o Tail(Tail(blocks)))
             ELSE << x >> \o Collapse(Tail(blocks))

Opcode(tag, i1, i2, j1, j2) == [tag |-> tag, i1 |-> i1, i2 |-> i2, j1 |-> j1, j2 |-> j2]

\* SequenceMatcher.get_opcodes: from block n on, with a[:ai] and b[:bj]
\* accounted for
RECURSIVE OpcodesFrom(_, _, _, _)
OpcodesFrom(blocks, n, ai, bj) ==
    IF n > Len(blocks) THEN << >>
    ELSE LET x == blocks[n]
             change == IF ai < x[1] /\ bj < x[2] THEN "replace"
                       ELSE IF ai < x[1] THEN "delete"
                       ELSE IF bj < x[2] THEN "insert"
                       ELSE ""
         IN  (IF change # "" THEN << Opcode(change, ai, x[1], bj, x[2]) >> ELSE << >>)
             \o (IF x[3] > 0
                 THEN << Opcode("equal", x[1], x[1] + x[3], x[2], x[2] + x[3]) >>
                 ELSE << >>)
             \o OpcodesFrom(blocks, n + 1, x[1] + x[3], x[2] + x[3])

get_opcodes(la, lb) ==
    OpcodesFrom(Collapse(MatchingBlocks(la, lb, 0, Len(la), 0, Len(lb)))
                    \o << << Len(la), Len(lb), 0 >> >>, 1, 0, 0)

\* unified_diff's n: the lines of context
ContextLines == 3

MaxOf(x, y) == IF x > y THEN x ELSE y
MinOf(x, y) == IF x < y THEN x ELSE y

\* get_grouped_opcodes: the leading and the trailing equal run are cut to
\* the context
TrimEnds(codes, n) ==
    LET c0 == IF codes = << >> THEN << Opcode("equal", 0, 1, 0, 1) >> ELSE codes
        c1 == IF c0[1].tag = "equal"
              THEN [c0 EXCEPT ![1] = Opcode("equal", MaxOf(c0[1].i1, c0[1].i2 - n), c0[1].i2,
                                            MaxOf(c0[1].j1, c0[1].j2 - n), c0[1].j2)]
              ELSE c0
        z  == Len(c1)
    IN  IF c1[z].tag = "equal"
        THEN [c1 EXCEPT ![z] = Opcode("equal", c1[z].i1, MinOf(c1[z].i2, c1[z].i1 + n),
                                      c1[z].j1, MinOf(c1[z].j2, c1[z].j1 + n))]
        ELSE c1

\* get_grouped_opcodes: the loop over the opcodes; an equal run longer than
\* twice the context closes a group and opens the next
RECURSIVE GroupsFrom(_, _, _, _)
GroupsFrom(codes, k, grp, n) ==
    IF k > Len(codes)
    THEN IF grp # << >> /\ ~(Len(grp) = 1 /\ grp[1].tag = "equal")
         THEN << grp >> ELSE << >>
    ELSE LET c == codes[k]
         IN  IF c.tag = "equal" /\ c.i2 - c.i1 > n + n
             THEN << Append(grp, Opcode("equal", c.i1, MinOf(c.i2, c.i1 + n),
                                        c.j1, MinOf(c.j2, c.j1 + n))) >>
                  \o GroupsFrom(codes, k + 1,
                                << Opcode("equal", MaxOf(c.i1, c.i2 - n), c.i2,
                                          MaxOf(c.j1, c.j2 - n), c.j2) >>, n)
             ELSE GroupsFrom(codes, k + 1, Append(grp, c), n)

get_grouped_opcodes(la, lb, n) == GroupsFrom(TrimEnds(get_opcodes(la, lb), n), 1, << >>, n)

\* difflib._format_range_unified(start, stop)
FormatRange(from, stop) ==
    IF stop - from = 1 THEN IntToStr(from + 1)
    ELSE IntToStr(IF stop - from = 0 THEN from ELSE from + 1)
            \o << "," >> \o IntToStr(stop - from)

\* Marked without the mark on empty lines
RECURSIVE MarkedUnlessEmpty(_, _, _, _)
MarkedUnlessEmpty(mark, list, from, to) ==
    IF from >= to THEN << >>
    ELSE << (IF list[from + 1] = << >> THEN << >> ELSE << mark >> \o list[from + 1]) >>
            \o MarkedUnlessEmpty(mark, list, from + 1, to)

\* The lines of list[from:to], each behind the mark
RECURSIVE Marked(_, _, _, _)
Marked(mark, list, from, to) ==
    IF from >= to THEN << >>
    ELSE << << mark >> \o list[from + 1] >> \o Marked(mark, list, from + 1, to)

\* unified_diff: the body lines of one group, from its opcode k on
RECURSIVE GroupBody(_, _, _, _)
GroupBody(la, lb, grp, k) ==
    IF k > Len(grp) THEN << >>
    ELSE LET c == grp[k]
         IN  (IF c.tag = "equal" THEN Marked(" ", la, c.i1, c.i2)
              ELSE (IF c.tag \in { "replace", "delete" }
                    THEN Marked("-", la, c.i1, c.i2) ELSE << >>)
                   \o (IF c.tag \in { "replace", "insert" }
                       THEN Marked("+", lb, c.j1, c.j2) ELSE << >>))
             \o GroupBody(la, lb, grp, k + 1)

\* unified_diff: the header of one group
HunkHeader(grp) ==
    << "@", "@", " ", "-" >> \o FormatRange(grp[1].i1, grp[Len(grp)].i2)
        \o << " ", "+" >> \o FormatRange(grp[1].j1, grp[Len(grp)].j2)
        \o << " ", "@", "@" >>

RECURSIVE HunksFrom(_, _, _, _)
HunksFrom(la, lb, groups, k) ==
    IF k > Len(groups) THEN << >>
    ELSE << HunkHeader(groups[k]) >> \o GroupBody(la, lb, groups[k], 1)
            \o HunksFrom(la, lb, groups, k + 1)

\* rel_path
RelPath == << "x" >>

\* difflib.unified_diff(a, b, fromfile="a/" + rel_path, tofile="b/" +
\* rel_path, lineterm=""): nothing when there is no group
unified_diff(la, lb) ==
    LET groups == get_grouped_opcodes(la, lb, ContextLines)
    IN  IF groups = << >> THEN << >>
        ELSE << << "-", "-", "-", " ", "a", "/" >> \o RelPath,
                << "+", "+", "+", " ", "b", "/" >> \o RelPath >>
             \o HunksFrom(la, lb, groups, 1)

\* lines 357-374: diff_text
SynthesizedPatch(orig, new) ==
    LET diff_lines == unified_diff(SplitLines(orig), SplitLines(new))
    IN  IF Len(diff_lines) <= 0 THEN << >>
        ELSE DiffGitMark \o << "a", "/" >> \o RelPath \o << " ", "b", "/" >> \o RelPath
                \o << "\n" >> \o JoinLines(diff_lines) \o << "\n" >>

MaxPatchLines == 2

\* Lines of the two texts: plain, empty, and one that reads as a file
\* header once it is marked as removed
PatchLineMenu == { << "a" >>, << >>, << "-", "-", " " >> }

RECURSIVE PatchLineLists(_)
PatchLineLists(n) ==
    IF n = 0 THEN { << >> }
    ELSE LET shorter == PatchLineLists(n - 1)
         IN  shorter \cup { Append(l, x) : l \in shorter, x \in PatchLineMenu }

\* Texts with and without a terminator after the last line
PatchTexts ==
    { JoinLines(l) : l \in PatchLineLists(MaxPatchLines) }
        \cup { JoinLines(l) \o << "\n" >> : l \in PatchLineLists(MaxPatchLines) }

\* The function of the example before and after
ExampleOriginal ==
    << "s", "u", "m", "(", "a", ",", "b", ")", "{", " ", "r", "e", "t", "u", "r", "n", " ", "a", "+", "b", ";", " ", "}" >>
ExampleReplacement ==
    << "f", "u", "n", "c", "t", "i", "o", "n", " ", "s", "u", "m", "(", "a", ",", "b", ")", "{", " ", "r", "e", "t", "u", "r", "n", " ", "a", " ", "+", " ", "b", " ", "+", " ", "0", ";", " ", "}" >>

\* Nine lines of which the first and the last are removed: the seven equal
\* lines between are more than twice the context
LongOriginal ==
    JoinLines(<< << "a" >>, << "b" >>, << "b" >>, << "b" >>, << "b" >>, << "b" >>,
                 << "b" >>, << "b" >>, << "a" >> >>) \o << "\n" >>
LongReplacement ==
    JoinLines(<< << "b" >>, << "b" >>, << "b" >>, << "b" >>, << "b" >>, << "b" >>,
                 << "b" >> >>) \o << "\n" >>

PatchInputs ==
    (PatchTexts \X PatchTexts)
        \cup { << ExampleOriginal, ExampleReplacement >>,
               << LongOriginal, LongReplacement >> }

InitPatch ==
    /\ SpanIdle
    /\ DiffIdle
    /\ BundleIdle
    /\ SnippetIdle
    /\ ValidateIdle
    /\ ChunkIdle
    /\ RunIdle
    /\ RetryIdle
    /\ CacheIdle
    /\ \E inp \in PatchInputs : original_text = inp[1] /\ updated_text = inp[2]
    /\ patch_text = NoText
    /\ patch_findings = << >>
    /\ patch_pc = "diff"

\* lines 357-383: the patch is built and written
SynthesizePatch ==
    /\ patch_pc = "diff"
    /\ patch_text' = SynthesizedPatch(original_text, updated_text)
    /\ patch_pc' = "written"
    /\ UNCHANGED << original_text, updated_text, patch_findings >>

\* validate_generated_output.py lines 155-215 on the written patch
ScreenPatch ==
    /\ patch_pc = "written"
    /\ patch_findings' = validate_unified_diff(patch_text)
    /\ patch_pc' = "screened"
    /\ UNCHANGED << original_text, updated_text, patch_text >>

PatchFrame == << spanVars, diffVars, bundleVars, snippetVars, validateVars, chunkVars,
                runVars, retryVars, cacheVars >>

NextPatch ==
    \/ SynthesizePatch /\ UNCHANGED PatchFrame
    \/ ScreenPatch /\ UNCHANGED PatchFrame

SpecPatch == InitPatch /\ [][NextPatch]_vars

\* A "diff --git" line first, both file headers, a hunk, and a terminator
\* after the last line
HasPatchForm(t) ==
    /\ StartsWith(t, DiffGitMark)
    /\ LineStartsWith(t, OldFileMark)
    /\ LineStartsWith(t, NewFileMark)
    /\ LineStartsWith(t, HunkMark)
    /\ EndsWithNewline(t)

\* No finding of severity error and none of the three structural codes
NoStructuralFinding(fl) ==
    \A k \in DOMAIN fl :
        /\ fl[k].severity # "error"
        /\ fl[k].code \notin { "patch.missing_headers", "patch.invalid_hunk_line",
                               "artifact.missing_trailing_newline" }

\* The hunks of a patch
HunkCount(t) ==
    Cardinality({ k \in DOMAIN SplitLines(t) : StartsWith(SplitLines(t)[k], HunkMark) })

\* The example's patch has one hunk
ExampleHasOneHunk ==
    (patch_pc = "screened" /\ original_text = ExampleOriginal
        /\ updated_text = ExampleReplacement)
      => HunkCount(patch_text) = 1

\* C23 as stated: for every original and new text that differ the patch
\* written is a "diff --git" line, file headers and hunks, ends with a
\* newline, and draws no error finding, no patch.missing_headers, no
\* patch.invalid_hunk_line and no artifact.missing_trailing_newline from
\* validate_unified_diff; the example's patch has a single hunk.
C23_EveryChangeGivesCleanPatch ==
    /\ (patch_pc = "screened" /\ original_text # updated_text)
          => (HasPatchForm(patch_text) /\ NoStructuralFinding(patch_findings))
    /\ ExampleHasOneHunk

\* C23, amended: the same for every two texts whose lists of lines differ;
\* for two texts with the same lines, alike or differing in their line
\* terminators only, the patch written is empty and draws no finding.
C23_EveryLineChangeGivesCleanPatch ==
    /\ (patch_pc = "screened"
          /\ SplitLines(original_text) # SplitLines(updated_text))
          => (HasPatchForm(patch_text) /\ NoStructuralFinding(patch_findings))
    /\ (patch_pc = "screened"
          /\ SplitLines(original_text) = SplitLines(updated_text))
          => (patch_text = << >> /\ patch_findings = << >>)
    /\ ExampleHasOneHunk

\* The nine lines with both ends removed gave a patch of two hunks that
\* passed
C23_Witness ==
    /\ patch_pc = "screened"
    /\ original_text = LongOriginal
    /\ updated_text = LongReplacement
    /\ HunkCount(patch_text) = 2
    /\ HasPatchForm(patch_text)
    /\ patch_findings = << >>

====
